---- MODULE Spec2Model ----
(***************************************************************************)
(* A model of libbsb, the BSB/KAP raster chart library of chartr:         *)
(* the run-length row codec (image/compress.rs, image/decompress.rs),     *)
(* the bitmap (image/bitmap.rs), the container reader and writer          *)
(* (image/mod.rs, image/index.rs) and the header codec (serde/).          *)
(***************************************************************************)
EXTENDS Integers, Sequences, FiniteSets, TLC

VARIABLES
    row,    \* the row handed to compress_bsb_row: depth, line number, pixels
    enc,    \* what compress_bsb_row left in compressed_buf, and its return value
    rowbuf, \* what decompress_bsb_row left in the row buffer, and its result
    kap,    \* the arguments of KapImageFile::new and what it returned
    disk,   \* what into_file did: the bytes of the file and the offsets it pushed
    loaded, \* what from_reader returned for the file
    trail,  \* header texts and headers, each made from the one before it
    access  \* the last call made on the image new returned, and its result

vars == <<row, enc, rowbuf, kap, disk, loaded, trail, access>>

(***************************************************************************)
(* Option<T>.                                                              *)
(***************************************************************************)
None == [tag |-> "none"]
Some(v) == [tag |-> "some", v |-> v]
IsSome(o) == o.tag = "some"

\* TLC evaluates the argument of an operator where it is first used: e with
\* x evaluated before it, so that what a loop has accumulated is evaluated
\* in every iteration and not at the end of the loop
Eager(x, e) == IF x = x THEN e ELSE e
(***************************************************************************)
(* Machine integers.                                                       *)
(***************************************************************************)
U8  == 2^8
U16 == 2^16

Min(a, b) == IF a < b THEN a ELSE b
Max(a, b) == IF a > b THEN a ELSE b

RECURSIVE BitAnd(_, _)
BitAnd(a, b) ==
    IF a = 0 \/ b = 0 THEN 0
    ELSE (IF a % 2 = 1 /\ b % 2 = 1 THEN 1 ELSE 0) + 2 * BitAnd(a \div 2, b \div 2)

RECURSIVE BitOr(_, _)
BitOr(a, b) ==
    IF a = 0 THEN b
    ELSE IF b = 0 THEN a
    ELSE (IF a % 2 = 1 \/ b % 2 = 1 THEN 1 ELSE 0) + 2 * BitOr(a \div 2, b \div 2)

\* u16 `<<`: the bits shifted out are dropped, in debug and release builds alike
Shl16(a, n) == (a * 2^n) % U16
\* u8 `<<`
Shl8(a, n) == (a * 2^n) % U8
\* u8::try_from(x).unwrap_or(u8::MAX)
ClampU8(x) == IF x < U8 THEN x ELSE U8 - 1
\* u16::saturating_mul
SatMul16(a, b) == Min(a * b, U16 - 1)

(***************************************************************************)
(* image/compress.rs                                                       *)
(***************************************************************************)
\* the count primitive with no 0x80 before a byte that is 0
RECURSIVE bsb_compress_nb_plain(_, _, _)
bsb_compress_nb_plain(nb, pixel, max) ==
    IF nb > max
    THEN LET r == bsb_compress_nb_plain(nb \div 2^7, BitOr(pixel, 128), max)
         IN  [bytes |-> Append(r.bytes, BitOr(nb % 128, BitAnd(pixel, 128))),
              count |-> r.count + 1]
    ELSE [bytes |-> <<BitOr(pixel, ClampU8(nb))>>, count |-> 1]

\* the count primitive taking a second byte from max on
RECURSIVE bsb_compress_nb_early(_, _, _)
bsb_compress_nb_early(nb, pixel, max) ==
    IF nb >= max /\ nb > 0
    THEN LET r == bsb_compress_nb_early(nb \div 2^7, BitOr(pixel, 128), max)
         IN  [bytes |-> Append(r.bytes, BitOr(nb % 128, BitAnd(pixel, 128))),
              count |-> r.count + 1]
    ELSE LET px == BitOr(pixel, ClampU8(nb))
         IN  IF px = 0
             THEN [bytes |-> <<128, px>>, count |-> 2]
             ELSE [bytes |-> <<px>>, count |-> 1]

\* bsb_compress_nb: the bytes pushed on buf_out and the count returned
RECURSIVE bsb_compress_nb(_, _, _)
bsb_compress_nb(nb, pixel, max) ==
    IF nb > max
    THEN LET r == bsb_compress_nb(nb \div 2^7, BitOr(pixel, 128), max)
         IN  [bytes |-> Append(r.bytes, BitOr(nb % 128, BitAnd(pixel, 128))),
              count |-> r.count + 1]
    ELSE LET px == BitOr(pixel, ClampU8(nb))
         IN  IF px = 0
             THEN [bytes |-> <<128, px>>, count |-> 2]
             ELSE [bytes |-> <<px>>, count |-> 1]

\* the inner while of compress_bsb_row: the position ipixel_in it stops at,
\* the first one from i on that is width_in or holds another pixel
RunEnd(to_compress, i, width_in, last_pixel) ==
    LET other == { j \in i..(width_in - 1) : to_compress[j + 1] # last_pixel }
    IN  IF other = {} THEN width_in
        ELSE CHOOSE j \in other : \A k \in other : j <= k

\* the outer while of compress_bsb_row, from the state s of its locals
RECURSIVE CompressLoop(_, _, _, _, _)
CompressLoop(to_compress, depth, width_in, width_out, s) ==
    IF ~(s.ipixel_in < width_in) THEN s
    ELSE
    LET dec        == 7 - depth
        max        == 2^dec - 1
        last_pixel == to_compress[s.ipixel_in + 1]
        in1        == RunEnd(to_compress, s.ipixel_in + 1, width_in, last_pixel)
        run0       == in1 - (s.ipixel_in + 1)
        out1       == s.ipixel_out + 1 + run0
        divisor    == Shl16(width_in, 1)
    IN  IF divisor = 0
        THEN [s EXCEPT !.panic = TRUE]
        ELSE
        LET xout   == SatMul16(Shl16(in1, 1) + 1, width_out \div divisor)
            run    == IF xout > out1 THEN run0 + (xout - out1) ELSE run0
            out2   == IF xout > out1 THEN xout ELSE out1
            w      == bsb_compress_nb(run % U16, ClampU8(Shl16(last_pixel, dec)), max)
        IN  CompressLoop(to_compress, depth, width_in, width_out,
                [ipixel_in  |-> in1,
                 ipixel_out |-> out2,
                 buf        |-> s.buf \o w.bytes,
                 ibuf       |-> (s.ibuf + w.count) % U16,
                 ovf        |-> s.ovf \/ run >= U16 \/ s.ibuf + w.count >= U16,
                 panic      |-> FALSE])

\* compress_bsb_row: buf is what was appended to compressed_buf, ret the value
\* returned; panic: the division by zero at line 60; ovf: a u16 addition
\* overflowed (a panic in a build with overflow checks, wrapped here)
compress_bsb_row(to_compress, depth, line_number, width_in, width_out) ==
    LET ln == bsb_compress_nb(line_number, 0, 127)
        s  == CompressLoop(to_compress, depth, width_in, width_out,
                  [ipixel_in |-> 0, ipixel_out |-> 0, buf |-> ln.bytes,
                   ibuf |-> ln.count, ovf |-> FALSE, panic |-> FALSE])
    IN  IF s.panic
        THEN [panic |-> TRUE, ovf |-> s.ovf, buf |-> s.buf, ret |-> 0]
        ELSE [panic |-> FALSE,
              ovf   |-> s.ovf \/ s.ibuf + 1 >= U16,
              buf   |-> Append(s.buf, 0),
              ret   |-> (s.ibuf + 1) % U16]

(***************************************************************************)
(* image/decompress.rs                                                     *)
(* A stream is the sequence of bytes under the reader and a position: the  *)
(* number of bytes already consumed.                                       *)
(***************************************************************************)
StreamEnd == "Unexpected stream end"

\* fgetkapc with typein = 0, the only value its callers pass
fgetkapc(stream, pos) ==
    IF pos < Len(stream)
    THEN [ok |-> TRUE, b |-> stream[pos + 1], pos |-> pos + 1]
    ELSE [ok |-> FALSE, err |-> StreamEnd, pos |-> pos]

\* the while of bsb_decompress_nb: continuation bytes, from the last byte c
RECURSIVE DecompressMore(_, _, _, _)
DecompressMore(stream, pos, c, count) ==
    LET Next(g) ==
            IF ~g.ok THEN g
            ELSE DecompressMore(stream, g.pos, g.b, Shl16(count, 7) + BitAnd(g.b, 127))
    IN  IF BitAnd(c, 128) = 0 THEN [ok |-> TRUE, count |-> count, pos |-> pos]
        ELSE Next(fgetkapc(stream, pos))

\* the count returned as it was read, with no 1 added
bsb_decompress_nb_count(stream, pos, decin, maxin) ==
    LET More(pixel, m) ==
            IF ~m.ok THEN m
            ELSE [ok    |-> TRUE,
                  pixel |-> pixel,
                  count |-> m.count % U16,
                  ovf   |-> m.count >= U16,
                  pos   |-> m.pos]
        Count(g, count0) ==
            More(ClampU8(count0 \div 2^decin),
                 DecompressMore(stream, g.pos, g.b, BitAnd(count0, maxin)))
        First(g) == IF ~g.ok THEN g ELSE Count(g, BitAnd(g.b, 127))
    IN  First(fgetkapc(stream, pos))

\* bsb_decompress_nb: the pixel stored through the reference, the count
\* returned and the new position; ovf: count + 1 overflowed u16 (a panic in
\* a build with overflow checks, wrapped here)
bsb_decompress_nb(stream, pos, decin, maxin) ==
    LET More(pixel, m) ==
            IF ~m.ok THEN m
            ELSE [ok    |-> TRUE,
                  pixel |-> pixel,
                  count |-> (m.count + 1) % U16,
                  ovf   |-> m.count + 1 >= U16,
                  pos   |-> m.pos]
        Count(g, count0) ==
            More(ClampU8(count0 \div 2^decin),
                 DecompressMore(stream, g.pos, g.b, BitAnd(count0, maxin)))
        First(g) == IF ~g.ok THEN g ELSE Count(g, BitAnd(g.b, 127))
    IN  First(fgetkapc(stream, pos))

\* Decompressor<1>: buf[xout >> 3] |= pixel << (7 - (xout & 7)) for every xout
\* of from..to-1, all of them in the byte whose value is v
RECURSIVE OrBits(_, _, _, _)
OrBits(v, pixel, from, to) ==
    IF from >= to THEN v
    ELSE OrBits(BitOr(v, Shl8(pixel, 7 - (from % 8))), pixel, from + 1, to)

\* the inner while run once more than the count
Deposit_one_more(DEPTH, buf, xout, pixel, count) ==
    IF DEPTH = 1
    THEN [b \in 1..Len(buf) |->
            OrBits(buf[b], pixel, Max(xout, (b - 1) * 8), Min(xout + count + 1, b * 8))]
    ELSE [i \in 1..Len(buf) |->
            IF xout < i /\ i <= xout + count + 1
            THEN (IF DEPTH = 4 THEN BitAnd(pixel, 15) ELSE pixel)
            ELSE buf[i]]

\* the inner while of decompress_bsb_row_loop: count pixels deposited from
\* xout on, by the statement of Decompressor<DEPTH>
Deposit(DEPTH, buf, xout, pixel, count) ==
    IF DEPTH = 1
    THEN [b \in 1..Len(buf) |->
            OrBits(buf[b], pixel, Max(xout, (b - 1) * 8), Min(xout + count, b * 8))]
    ELSE [i \in 1..Len(buf) |->
            IF xout < i /\ i <= xout + count
            THEN (IF DEPTH = 4 THEN BitAnd(pixel, 15) ELSE pixel)
            ELSE buf[i]]

\* Decompressor<DEPTH>::decompress_bsb_row_loop, from xout with image_width
\* pixels still to produce
RECURSIVE decompress_bsb_row_loop(_, _, _, _, _, _, _, _, _)
decompress_bsb_row_loop(DEPTH, buf, stream, pos, image_width, maxin, decin, xout, ovf) ==
    LET Run(r, count) ==
            decompress_bsb_row_loop(DEPTH, Deposit(DEPTH, buf, xout, r.pixel, count),
                                    stream, r.pos, image_width - count, maxin, decin,
                                    xout + count, ovf \/ r.ovf)
        Read(r) ==
            IF ~r.ok THEN [ok |-> FALSE, err |-> r.err, buf |-> buf, pos |-> r.pos, ovf |-> ovf]
            ELSE Run(r, Min(r.count, image_width))
    IN  IF image_width = 0 THEN [ok |-> TRUE, buf |-> buf, pos |-> pos, ovf |-> ovf]
        ELSE Read(bsb_decompress_nb(stream, pos, decin, maxin))

\* BsbDecompressor<DEPTH>::decompress_bsb_row on the row buffer buf
decompress_bsb_row(DEPTH, buf, stream, pos, width) ==
    LET Row(ln, r) ==
            IF ~r.ok THEN r
            ELSE [ok |-> TRUE, buf |-> r.buf, pos |-> r.pos, ovf |-> r.ovf,
                  line_number |-> ln.count]
        Line(ln) ==
            IF ~ln.ok
            THEN [ok |-> FALSE, err |-> ln.err, buf |-> buf, pos |-> ln.pos, ovf |-> FALSE]
            ELSE Row(ln, decompress_bsb_row_loop(DEPTH, buf, stream, ln.pos, width,
                                                 2^(7 - DEPTH) - 1, 7 - DEPTH, 0, ln.ovf))
    IN  Line(bsb_decompress_nb(stream, pos, 0, 127))


(***************************************************************************)
(* Text.  A String is a sequence of characters, each a one-character      *)
(* string; as_bytes and String::from_utf8 go through the ASCII table.      *)
(***************************************************************************)
CR == "\r"
LF == "\n"
\* the character U+001A, which has no escape in a string of this language
\* (nor has the grave accent, "^G" in the table below)
SUB == "^Z"
CRLF == <<CR, LF>>

Printable ==
    <<" ", "!", "\"", "#", "$", "%", "&", "'", "(", ")", "*", "+", ",", "-", ".", "/",
      "0", "1", "2", "3", "4", "5", "6", "7", "8", "9", ":", ";", "<", "=", ">", "?",
      "@", "A", "B", "C", "D", "E", "F", "G", "H", "I", "J", "K", "L", "M", "N", "O",
      "P", "Q", "R", "S", "T", "U", "V", "W", "X", "Y", "Z", "[", "\\", "]", "^", "_",
      "^G", "a", "b", "c", "d", "e", "f", "g", "h", "i", "j", "k", "l", "m", "n", "o",
      "p", "q", "r", "s", "t", "u", "v", "w", "x", "y", "z", "{", "|", "}", "~">>

Digits == <<"0", "1", "2", "3", "4", "5", "6", "7", "8", "9">>
DigitChars == {Digits[i] : i \in 1..Len(Digits)}
DigitVal(c) == (CHOOSE i \in 1..Len(Digits) : Digits[i] = c) - 1
UpperChars == {Printable[i] : i \in 34..59}
WhiteChars == {" ", "\t", CR, LF}

\* the byte of a character (str::as_bytes, one character at a time)
ByteOf(c) ==
    IF c = CR THEN 13
    ELSE IF c = LF THEN 10
    ELSE IF c = "\t" THEN 9
    ELSE IF c = SUB THEN 26
    ELSE 31 + (CHOOSE i \in 1..Len(Printable) : Printable[i] = c)

as_bytes(s) == [i \in 1..Len(s) |-> ByteOf(s[i])]

\* the character of a byte below 0x80; String::from_utf8 of the other bytes
\* is not modelled (the headers of the model are ASCII)
CharOf(b) ==
    IF b = 13 THEN CR
    ELSE IF b = 10 THEN LF
    ELSE IF b = 9 THEN "\t"
    ELSE IF b = 26 THEN SUB
    ELSE IF b >= 32 /\ b <= 126 THEN Printable[b - 31]
    ELSE "?"

from_utf8(bytes) == [i \in 1..Len(bytes) |-> CharOf(bytes[i])]

\* s[from..to) of Rust, with 0-based byte offsets
Slice(s, from, to) == SubSeq(s, from + 1, to)
StartsWith(s, p) == Len(s) >= Len(p) /\ SubSeq(s, 1, Len(p)) = p
EndsWith(s, p) == Len(s) >= Len(p) /\ SubSeq(s, Len(s) - Len(p) + 1, Len(s)) = p

\* the strings of ss one after the other
RECURSIVE Concat(_)
Concat(ss) ==
    IF Len(ss) = 0 THEN <<>>
    ELSE IF Len(ss) = 1 THEN ss[1]
    ELSE LET half == Len(ss) \div 2
         IN  Concat(SubSeq(ss, 1, half)) \o Concat(SubSeq(ss, half + 1, Len(ss)))

\* the least of the offsets hit, or n when there is none
Least(hit, n) == IF hit = {} THEN n ELSE CHOOSE i \in hit : \A j \in hit : i <= j

\* the greatest of a set of numbers
Greatest(hit) == CHOOSE i \in hit : \A j \in hit : j <= i

\* the 0-based offset of the first character of s at or after offset p that
\* is one of cs, and of the first that is none of them, or Len(s) when there
\* is none
FirstIn(s, p, cs) == Least({ i \in p..(Len(s) - 1) : s[i + 1] \in cs }, Len(s))
FirstNotIn(s, p, cs) == Least({ i \in p..(Len(s) - 1) : s[i + 1] \notin cs }, Len(s))

\* the elements of a finite set of integers in increasing order
SortedSeq(S) ==
    [k \in 1..Cardinality(S) |-> CHOOSE x \in S : Cardinality({y \in S : y < x}) = k - 1]

(***************************************************************************)
(* Display of the integers.                                                *)
(***************************************************************************)
RECURSIVE FmtNat(_)
FmtNat(n) ==
    IF n < 10 THEN <<Digits[n + 1]>>
    ELSE Append(FmtNat(n \div 10), Digits[(n % 10) + 1])

PadLeft(s, width, c) ==
    IF Len(s) >= width THEN s ELSE [i \in 1..(width - Len(s)) |-> c] \o s
PadRight(s, width, c) ==
    IF Len(s) >= width THEN s ELSE s \o [i \in 1..(width - Len(s)) |-> c]

\* the value of a string of decimal digits
RECURSIVE NatOf(_)
NatOf(ds) ==
    IF ds = <<>> THEN 0
    ELSE 10 * NatOf(SubSeq(ds, 1, Len(ds) - 1)) + DigitVal(ds[Len(ds)])

IsDigit(c) == c \in DigitChars

\* nom's digit1 (complete) at offset p: the longest run of digits, one at
\* least
digit1(s, p) ==
    LET Upto(e) == IF e = p THEN [ok |-> FALSE, pos |-> p]
                   ELSE [ok |-> TRUE, str |-> Slice(s, p, e), pos |-> e]
    IN  Upto(FirstNotIn(s, p, DigitChars))

\* map_res(digit1, |s| s.parse::<T>()) for an unsigned T of values below limit:
\* a value that does not fit is an error.  The numbers of the model have at
\* most nine significant digits, whatever T is.
parse_uint(s, p, limit) ==
    LET Value(n, at) == IF n >= limit THEN [ok |-> FALSE, pos |-> p]
                        ELSE [ok |-> TRUE, v |-> n, pos |-> at]
        Parsed(sig, at) == IF Len(sig) > 9 THEN [ok |-> FALSE, pos |-> p]
                           ELSE Value(NatOf(sig), at)
        Digits1(d) == IF ~d.ok THEN [ok |-> FALSE, pos |-> p]
                      ELSE Parsed(Slice(d.str, FirstNotIn(d.str, 0, {"0"}), Len(d.str)),
                                  d.pos)
    IN  Digits1(digit1(s, p))
\* the numbers of the model that Rust holds in a usize are below this
USIZE == 10^9

\* tag(c) for a one-character tag
tag(s, p, c) ==
    IF p < Len(s) /\ s[p + 1] = c THEN [ok |-> TRUE, pos |-> p + 1]
    ELSE [ok |-> FALSE, pos |-> p]

\* multispace0: zero or more of space, tab, CR and LF
multispace0(s, p) == FirstNotIn(s, p, WhiteChars)

\* alt((tag(","), multispace0)): a comma, or else any run of white space
comma_or_multispace(s, p) ==
    IF tag(s, p, ",").ok THEN p + 1 ELSE multispace0(s, p)

\* take_till(|c| c == ',' || c == '\n' || c == '\r'), which never fails
parse_till_comma_or_newline(s, p) ==
    LET Upto(e) == [ok |-> TRUE, str |-> Slice(s, p, e), pos |-> e]
    IN  Upto(FirstIn(s, p, {",", LF, CR}))

\* str::split_whitespace
split_whitespace(s) ==
    LET Words(ord) == [k \in 1..Len(ord) |-> Slice(s, ord[k], FirstIn(s, ord[k], WhiteChars))]
    IN  Words(SortedSeq({ i \in 0..(Len(s) - 1) :
                            s[i + 1] \notin WhiteChars /\ (i = 0 \/ s[i] \in WhiteChars) }))

\* Itertools::join
RECURSIVE join(_, _)
join(words, sep) ==
    IF words = <<>> THEN <<>>
    ELSE IF Len(words) = 1 THEN words[1]
    ELSE words[1] \o sep \o join(Tail(words), sep)

\* str::split_once of a set of characters or of a string: the offset of the
\* first match, or Len(s)
FindStr(s, pat) ==
    Least({ i \in 0..(Len(s) - Len(pat)) : Slice(s, i, i + Len(pat)) = pat }, Len(s))

\* out.split_terminator('\n').last().map_or(out.len(), str::len)
LastLineLen(out) ==
    LET Last(body) == Len(body) - Greatest({0} \cup { i \in 1..Len(body) : body[i] = LF })
    IN  Last(IF EndsWith(out, <<LF>>) THEN SubSeq(out, 1, Len(out) - 1) ELSE out)

(***************************************************************************)
(* f32 and f64.  A float is the integer number of 1/Scale units it holds:  *)
(* the decimal numbers of a header with at most FracDigits decimals are    *)
(* exact, and Display, {:.N}, {:e} and str::parse are computed on their    *)
(* decimal digits.  (The binary noise that {:.7} prints of an f32 is not   *)
(* modelled; it parses back to the same f32.)                              *)
(***************************************************************************)
Scale == 10^3
FracDigits == Len(FmtNat(Scale)) - 1
Abs(x) == IF x < 0 THEN -x ELSE x
SignOf(n) == IF n < 0 THEN <<"-">> ELSE <<>>
Zeros(k) == [i \in 1..k |-> "0"]

StripTrailingZeros(ds) ==
    SubSeq(ds, 1, Greatest({0} \cup { i \in 1..Len(ds) : ds[i] # "0" }))

FracOf(n) == PadLeft(FmtNat(Abs(n) % Scale), FracDigits, "0")

\* format!("{n}")
FmtDisplay(n) ==
    LET frac == StripTrailingZeros(FracOf(n))
    IN  SignOf(n) \o FmtNat(Abs(n) \div Scale)
            \o (IF frac = <<>> THEN <<>> ELSE <<".">> \o frac)

\* format!("{n:?}"): an integral value keeps one decimal
FmtDebug(n) ==
    IF Abs(n) % Scale = 0 THEN FmtDisplay(n) \o <<".", "0">> ELSE FmtDisplay(n)

\* format!("{n:.prec$}")
FmtFixed(n, prec) ==
    IF prec >= FracDigits
    THEN SignOf(n) \o FmtNat(Abs(n) \div Scale) \o <<".">> \o FracOf(n)
             \o Zeros(prec - FracDigits)
    ELSE LET unit == 10^(FracDigits - prec)
             lo   == Abs(n) \div unit
             r    == Abs(n) % unit
             q    == lo + (IF 2 * r > unit \/ (2 * r = unit /\ lo % 2 = 1) THEN 1 ELSE 0)
         IN  SignOf(n) \o FmtNat(q \div 10^prec)
                 \o (IF prec = 0 THEN <<>>
                     ELSE <<".">> \o PadLeft(FmtNat(q % 10^prec), prec, "0"))

\* format!("{n:.prec$e}") of a value with at most prec + 1 significant digits
FmtLowerExp(n, prec) ==
    IF n = 0 THEN <<"0", ".">> \o Zeros(prec) \o <<"e", "0">>
    ELSE LET ds  == StripTrailingZeros(FmtNat(Abs(n)))
             exp == Len(FmtNat(Abs(n))) - 1 - FracDigits
         IN  SignOf(n) \o <<ds[1], ".">> \o PadRight(Tail(ds), prec, "0") \o <<"e">>
                 \o (IF exp < 0 THEN <<"-">> ELSE <<>>) \o FmtNat(Abs(exp))

\* ImageHeader::fmt_f64
fmt_f64(num, width, precision, exp_pad) ==
    IF Abs(num) > Scale \div 100
    THEN PadLeft(FmtDisplay(num), width, " ")
    ELSE LET Padded(mant, sign, rest) ==
                 PadLeft(mant \o <<"e", sign>> \o PadLeft(rest, exp_pad, "0"), width, " ")
             Signed(mant, exp) ==
                 IF StartsWith(exp, <<"e", "-">>) THEN Padded(mant, "-", Slice(exp, 2, Len(exp)))
                 ELSE Padded(mant, "+", Slice(exp, 1, Len(exp)))
             SplitAt(f, e) == Signed(Slice(f, 0, e), Slice(f, e, Len(f)))
             Split(f) == SplitAt(f, FirstIn(f, 0, {"e"}))
         IN  Split(FmtLowerExp(num, precision))

\* nom's recognize_float followed by str::parse, at offset p: the value and
\* the offset after it.  Decimals after the FracDigits-th are dropped.
recognize_float(s, p) ==
    LET At(i, cs) == i < Len(s) /\ s[i + 1] \in cs
        Fail == [ok |-> FALSE, pos |-> p]
        Scaled(neg, base, exp, pos) ==
            [ok  |-> TRUE,
             v   |-> (IF neg THEN -1 ELSE 1)
                        * (IF exp >= 0 THEN base * 10^exp ELSE base \div 10^(0 - exp)),
             pos |-> pos]
        Value(neg, intd, fracd, exp, pos) ==
            Scaled(neg,
                   NatOf(intd) * Scale
                     + NatOf(PadRight(SubSeq(fracd, 1, Min(Len(fracd), FracDigits)),
                                      FracDigits, "0")),
                   exp, pos)
        \* cut(digit1) of the exponent, from es to ee
        ExpDigits(neg, intd, fracd, eneg, es, ee) ==
            IF ee = es THEN Fail
            ELSE Value(neg, intd, fracd,
                       (IF eneg THEN -1 ELSE 1) * NatOf(Slice(s, es, ee)), ee)
        ExpSign(neg, intd, fracd, eneg, es) ==
            ExpDigits(neg, intd, fracd, eneg, es, FirstNotIn(s, es, DigitChars))
        \* opt(tuple((e or E, opt(sign), cut(digit1)))) at me
        Exponent(neg, intd, fracd, me) ==
            IF ~At(me, {"e", "E"}) THEN Value(neg, intd, fracd, 0, me)
            ELSE ExpSign(neg, intd, fracd, At(me + 1, {"-"}),
                         IF At(me + 1, {"+", "-"}) THEN me + 2 ELSE me + 1)
        Fraction(neg, intd, fs, fe) == Exponent(neg, intd, Slice(s, fs, fe), fe)
        \* digit1 from p1 to ie, then opt(pair('.', opt(digit1)))
        IntFirst(neg, p1, ie) ==
            IF At(ie, {"."})
            THEN Fraction(neg, Slice(s, p1, ie), ie + 1, FirstNotIn(s, ie + 1, DigitChars))
            ELSE Exponent(neg, Slice(s, p1, ie), <<>>, ie)
        \* tuple(('.', digit1)), the digits from fs to fe
        DotFirst(neg, fs, fe) == IF fe > fs THEN Fraction(neg, <<>>, fs, fe) ELSE Fail
        Mantissa(neg, p1, ie) ==
            IF ie > p1 THEN IntFirst(neg, p1, ie)
            ELSE IF At(p1, {"."})
            THEN DotFirst(neg, p1 + 1, FirstNotIn(s, p1 + 1, DigitChars))
            ELSE Fail
        Signed(neg, p1) == Mantissa(neg, p1, FirstNotIn(s, p1, DigitChars))
    IN  Signed(At(p, {"-"}), IF At(p, {"+", "-"}) THEN p + 1 ELSE p)

\* nom::number::complete::float and ::double
float(s, p) == recognize_float(s, p)

\* nom::number::streaming::double: the same, but Incomplete (an error to its
\* callers) when the number runs to the end of the input
double(s, p) ==
    LET Streaming(r) == IF r.ok /\ r.pos >= Len(s) THEN [ok |-> FALSE, pos |-> p] ELSE r
    IN  Streaming(recognize_float(s, p))

(***************************************************************************)
(* chrono::NaiveDate with the two formats of the header, "%d/%m/%Y" and    *)
(* "%m/%d/%Y", each the order of its three numbers.                        *)
(***************************************************************************)
DATE_FORMAT == <<"d", "m", "Y">>
AMERICAN_DATE_FORMAT == <<"m", "d", "Y">>

IsLeap(y) == (y % 4 = 0 /\ y % 100 # 0) \/ y % 400 = 0
DaysIn(y, m) ==
    IF m = 2 THEN (IF IsLeap(y) THEN 29 ELSE 28)
    ELSE IF m \in {4, 6, 9, 11} THEN 30 ELSE 31
ValidDate(dt) == dt.m \in 1..12 /\ dt.d >= 1 /\ dt.d <= DaysIn(dt.Y, dt.m)

\* NaiveDate::format(fmt), for the years 0..9999
format_date(dt, fmt) ==
    LET Item(k) == IF fmt[k] = "d" THEN PadLeft(FmtNat(dt.d), 2, "0")
                   ELSE IF fmt[k] = "m" THEN PadLeft(FmtNat(dt.m), 2, "0")
                   ELSE PadLeft(FmtNat(dt.Y), 4, "0")
    IN  Item(1) \o <<"/">> \o Item(2) \o <<"/">> \o Item(3)

\* a numeric item of the format at offset p: white space, then one to max
\* digits
date_number(s, p, max) ==
    LET Digits2(b, e) == IF e = b THEN [ok |-> FALSE, pos |-> p]
                         ELSE [ok |-> TRUE, v |-> NatOf(Slice(s, b, e)), pos |-> e]
        From(b) == Digits2(b, Min(FirstNotIn(s, b, DigitChars), b + max))
    IN  From(multispace0(s, p))

\* NaiveDate::parse_from_str(s, fmt): the three numbers with a '/' between
\* them, nothing after them, and a day that exists
parse_from_str(s, fmt) ==
    LET W(k) == IF fmt[k] = "Y" THEN 4 ELSE 2
        Slash(n) == n.ok /\ tag(s, n.pos, "/").ok
        Checked(dt) == IF ValidDate(dt) THEN [ok |-> TRUE, v |-> dt] ELSE [ok |-> FALSE]
        Date(n) == Checked([c \in {"Y", "m", "d"} |->
                              n[CHOOSE k \in 1..3 : fmt[k] = c].v])
        Third(n1, n2, n3) ==
            IF ~n3.ok \/ n3.pos # Len(s) THEN [ok |-> FALSE]
            ELSE Date(<<n1, n2, n3>>)
        Second(n1, n2) ==
            IF ~Slash(n2) THEN [ok |-> FALSE]
            ELSE Third(n1, n2, date_number(s, n2.pos + 1, W(3)))
        First(n1) ==
            IF ~Slash(n1) THEN [ok |-> FALSE]
            ELSE Second(n1, date_number(s, n1.pos + 1, W(2)))
    IN  First(date_number(s, 0, W(1)))

\* str::trim
trim(s) ==
    SubSeq(s, FirstNotIn(s, 0, WhiteChars) + 1,
           Greatest({0} \cup { i \in 1..Len(s) : s[i] \notin WhiteChars }))

(***************************************************************************)
(* The header records and fields, Record::as_str and Field::as_str.        *)
(***************************************************************************)
RecordNames ==
    [VER |-> <<"V", "E", "R">>, CRR |-> <<"C", "R", "R">>, BSB |-> <<"B", "S", "B">>,
     KNP |-> <<"K", "N", "P">>, KNQ |-> <<"K", "N", "Q">>, CED |-> <<"C", "E", "D">>,
     NTM |-> <<"N", "T", "M">>, OST |-> <<"O", "S", "T">>, IFM |-> <<"I", "F", "M">>,
     RGB |-> <<"R", "G", "B">>, DAY |-> <<"D", "A", "Y">>, DSK |-> <<"D", "S", "K">>,
     NGT |-> <<"N", "G", "T">>, NGR |-> <<"N", "G", "R">>, REF |-> <<"R", "E", "F">>,
     WPX |-> <<"W", "P", "X">>, PWX |-> <<"P", "W", "X">>, WPY |-> <<"W", "P", "Y">>,
     PWY |-> <<"P", "W", "Y">>, ERR |-> <<"E", "R", "R">>, PLY |-> <<"P", "L", "Y">>,
     DTM |-> <<"D", "T", "M">>, GRY |-> <<"G", "R", "Y">>, PRC |-> <<"P", "R", "C">>,
     PRG |-> <<"P", "R", "G">>, CPH |-> <<"C", "P", "H">>]
Record == DOMAIN RecordNames
PaletteRecords == <<"RGB", "DAY", "DSK", "NGT", "NGR", "GRY", "PRC", "PRG">>

FieldNames ==
    [NA |-> <<"N", "A">>, NU |-> <<"N", "U">>, RA |-> <<"R", "A">>, DU |-> <<"D", "U">>,
     SC |-> <<"S", "C">>, GD |-> <<"G", "D">>, PR |-> <<"P", "R">>, PP |-> <<"P", "P">>,
     PI |-> <<"P", "I">>, SK |-> <<"S", "K">>, TA |-> <<"T", "A">>, UN |-> <<"U", "N">>,
     SD |-> <<"S", "D">>, DX |-> <<"D", "X">>, DY |-> <<"D", "Y">>, SE |-> <<"S", "E">>,
     RE |-> <<"R", "E">>, ED |-> <<"E", "D">>, NE |-> <<"N", "E">>, ND |-> <<"N", "D">>,
     BF |-> <<"B", "F">>, BD |-> <<"B", "D">>, SP |-> <<"S", "P">>, P1 |-> <<"P", "1">>,
     P2 |-> <<"P", "2">>, P3 |-> <<"P", "3">>, P4 |-> <<"P", "4">>, P5 |-> <<"P", "5">>,
     P6 |-> <<"P", "6">>, P7 |-> <<"P", "7">>, P8 |-> <<"P", "8">>, EC |-> <<"E", "C">>,
     VC |-> <<"V", "C">>, PC |-> <<"P", "C">>, GC |-> <<"G", "C">>, RM |-> <<"R", "M">>]
Field == DOMAIN FieldNames

(***************************************************************************)
(* ImageHeader::into_header_format.                                        *)
(***************************************************************************)
\* format_field_names from its i-th string on
RECURSIVE format_field_names_from(_, _, _, _)
format_field_names_from(v, i, out, first) ==
    IF i > Len(v) THEN out
    ELSE LET field == v[i]
             wrap  == LastLineLen(out) + Len(field) + 1 >= 80
             out1  == IF wrap THEN out \o CRLF \o <<" ", " ", " ", " ">> ELSE out
             out2  == IF wrap \/ first \/ i = 1 THEN out1 \o field
                      ELSE out1 \o <<",">> \o field
         IN  Eager(out2, format_field_names_from(v, i + 1, out2, i = 1))

format_field_names(v) == format_field_names_from(v, 1, <<>>, FALSE)

\* place_crr_string from its i-th word on
RECURSIVE place_crr_words(_, _, _, _)
place_crr_words(header, words, i, first) ==
    IF i > Len(words) THEN header
    ELSE LET word == words[i]
             wrap == ~first /\ LastLineLen(header) + Len(word) + 1 >= 80
             h1   == IF first THEN header \o <<" ", " ", " ", " ">>
                     ELSE IF wrap THEN header \o CRLF \o <<" ", " ", " ", " ">>
                     ELSE header
             h2   == IF first \/ wrap THEN h1 \o word
                     ELSE (IF EndsWith(h1, <<".">>) THEN h1 \o <<" ">> ELSE h1)
                              \o <<" ">> \o word
         IN  Eager(h2, place_crr_words(h2, words, i + 1, FALSE))

place_crr_string(header, rec) == place_crr_words(header, split_whitespace(rec), 1, TRUE)

serialize_crr(header) ==
    IF ~IsSome(header.copyright_record) THEN None
    ELSE LET SplitAt(crr, at) ==
                 IF at = Len(crr) THEN None
                 ELSE Some(place_crr_string(
                         RecordNames.CRR \o <<"/">> \o Slice(crr, 0, at) \o CRLF,
                         Slice(crr, at + 2, Len(crr))))
         IN  SplitAt(header.copyright_record.v, FindStr(header.copyright_record.v, CRLF))

serialize_ver(header) ==
    IF IsSome(header.version)
    THEN Some(RecordNames.VER \o <<"/">> \o FmtDebug(header.version.v))
    ELSE None

\* Field::serialize_field, with the formatter of each field's value
FieldValue(f, header) ==
    LET gp  == header.general_parameters
        knp == header.detailed_parameters
        knq == header.additional_parameters
        In(rec, name) == IF IsSome(rec) THEN rec.v[name] ELSE None
        Str(o) == IF IsSome(o) THEN o.v ELSE <<>>
        Num(o) == IF IsSome(o) THEN FmtNat(o.v) ELSE <<>>
        Flt(o) == IF IsSome(o) THEN FmtDisplay(o.v) ELSE <<>>
        Fix(o, prec) == IF IsSome(o) THEN FmtFixed(o.v, prec) ELSE <<>>
        W2(o) == IF IsSome(o) THEN PadLeft(FmtNat(o.v), 2, "0") ELSE <<>>
        Dt(o, fmt) == IF IsSome(o) THEN format_date(o.v, fmt) ELSE <<>>
    IN  CASE f = "NA" -> Str(gp.chart_name)
          [] f = "NU" -> Str(gp.chart_number)
          [] f = "RA" -> FmtNat(gp.image_width_height[1]) \o <<",">>
                            \o FmtNat(gp.image_width_height[2])
          [] f = "DU" -> Num(gp.drawing_units)
          [] f = "SC" -> Num(In(knp, "chart_scale"))
          [] f = "GD" -> Str(In(knp, "geodetic_datum_name"))
          [] f = "PR" -> Str(In(knp, "projection_name"))
          [] f = "PP" -> Flt(In(knp, "projection_parameter"))
          [] f = "PI" -> Fix(In(knp, "projection_interval"), 3)
          [] f = "SP" -> Str(In(knp, "sp"))
          [] f = "SK" -> Fix(In(knp, "skew_angle"), 7)
          [] f = "TA" -> Fix(In(knp, "text_angle"), 7)
          [] f = "UN" -> Str(In(knp, "depth_units"))
          [] f = "SD" -> Str(In(knp, "sounding_datum"))
          [] f = "DX" -> Fix(In(knp, "x_resolution"), 2)
          [] f = "DY" -> Fix(In(knp, "y_resolution"), 2)
          [] f = "EC" -> Str(In(knq, "ec"))
          [] f = "VC" -> Str(In(knq, "vc"))
          [] f = "PC" -> Str(In(knq, "pc"))
          [] f = "P1" -> Str(In(knq, "p1"))
          [] f = "P2" -> Fix(In(knq, "p2"), 3)
          [] f = "P3" -> Str(In(knq, "p3"))
          [] f = "P4" -> Str(In(knq, "p4"))
          [] f = "P5" -> Str(In(knq, "p5"))
          [] f = "P6" -> Str(In(knq, "p6"))
          [] f = "P7" -> Str(In(knq, "p7"))
          [] f = "P8" -> Str(In(knq, "p8"))
          [] f = "GC" -> Str(In(knq, "gc"))
          [] f = "RM" -> Str(In(knq, "rm"))
          [] f = "SE" -> Num(In(header.ced, "source_edition"))
          [] f = "RE" -> W2(In(header.ced, "raster_edition"))
          [] f = "ED" -> Dt(In(header.ced, "edition_date"), DATE_FORMAT)
          [] f = "NE" -> Fix(In(header.ntm, "edition"), 2)
          [] f = "ND" -> Dt(In(header.ntm, "date"), AMERICAN_DATE_FORMAT)
          [] f = "BF" -> Str(In(header.ntm, "base_flag"))
          [] f = "BD" -> Dt(In(header.ntm, "adn_record"), AMERICAN_DATE_FORMAT)

\* P5..P8 are the fields of which nothing is written, the key included,
\* when they are unset
serialize_field(f, header) ==
    LET knq == header.additional_parameters
        Unset(name) == ~(IsSome(knq) /\ IsSome(knq.v[name]))
    IN  IF \/ f = "P5" /\ Unset("p5")
           \/ f = "P6" /\ Unset("p6")
           \/ f = "P7" /\ Unset("p7")
           \/ f = "P8" /\ Unset("p8")
        THEN <<>>
        ELSE FieldNames[f] \o <<"=">> \o FieldValue(f, header)

\* the record name, a slash, and the fields through format_field_names
RecordOf(rec, fields, header) ==
    format_field_names(<<RecordNames[rec] \o <<"/">>>>
                         \o [i \in 1..Len(fields) |-> serialize_field(fields[i], header)])

serialize_general_parameters(header) ==
    RecordOf("BSB", <<"NA", "NU", "RA", "DU">>, header)

serialize_detailed_parameters(header) ==
    RecordOf("KNP", <<"SC", "GD", "PR", "PP", "PI", "SP", "SK", "TA", "UN", "SD", "DX", "DY">>,
             header)

\* Field::serialize_additional_gd and ::serialize_additional_sc: the GD and
\* SC of KNQ
serialize_additional(f, header) ==
    LET knq  == header.additional_parameters
        name == IF f = "GD" THEN "gd" ELSE "sc"
    IN  FieldNames[f] \o <<"=">>
            \o (IF IsSome(knq) /\ IsSome(knq.v[name]) THEN knq.v[name].v ELSE <<>>)

\* P5..P8 are not among the fields it writes
serialize_additional_parameters(header) ==
    LET fields == <<"EC", "GD", "VC", "SC", "PC", "P1", "P2", "P3", "P4", "GC", "RM">>
    IN  format_field_names(
            <<RecordNames.KNQ \o <<"/">>>>
              \o [i \in 1..Len(fields) |->
                    IF fields[i] \in {"GD", "SC"} THEN serialize_additional(fields[i], header)
                    ELSE serialize_field(fields[i], header)])

serialize_chart_edition_parameters(header) ==
    RecordOf("CED", <<"SE", "RE", "ED">>, header)

serialize_ntm_parameters(header) ==
    RecordOf("NTM", <<"NE", "ND", "BF", "BD">>, header)

serialize_ost(header) ==
    IF IsSome(header.ost) THEN Some(RecordNames.OST \o <<"/">> \o FmtNat(header.ost.v))
    ELSE None

serialize_ifm(header) == RecordNames.IFM \o <<"/">> \o FmtNat(header.ifm)

\* the entries of an Option<Vec<T>>, none when it is None
Entries(o) == IF IsSome(o) THEN o.v ELSE <<>>

\* the lines numbered from 0
Lines_from_zero(rec, texts) ==
    IF texts = <<>> THEN None
    ELSE Some(Concat([i \in 1..Len(texts) |->
                 RecordNames[rec] \o <<"/">> \o FmtNat(i - 1) \o <<",">> \o texts[i] \o CRLF]))

\* the lines of a record that is written once per entry, numbered from 1,
\* from the text of each entry: nothing at all when there is no entry
Lines(rec, texts) ==
    IF texts = <<>> THEN None
    ELSE Some(Concat([i \in 1..Len(texts) |->
                 RecordNames[rec] \o <<"/">> \o FmtNat(i) \o <<",">> \o texts[i] \o CRLF]))

F10(x) == FmtFixed(x, 10)

serialize_rgb(rec, rgbs) ==
    Lines(rec, [i \in 1..Len(Entries(rgbs)) |->
                  join([k \in 1..3 |-> FmtNat(rgbs.v[i][k])], <<",">>)])

serialize_refs(refs) ==
    Lines("REF", [i \in 1..Len(Entries(refs)) |->
                    join(<<FmtNat(refs.v[i].pixels[1]), FmtNat(refs.v[i].pixels[2]),
                           F10(refs.v[i].coords[1]), F10(refs.v[i].coords[2])>>, <<",">>)])

serialize_plys(plys) ==
    Lines("PLY", [i \in 1..Len(Entries(plys)) |->
                    F10(plys.v[i][1]) \o <<",">> \o F10(plys.v[i][2])])

serialize_dtm(dtm) ==
    IF IsSome(dtm)
    THEN Some(RecordNames.DTM \o <<"/">> \o F10(dtm.v[1]) \o <<",">> \o F10(dtm.v[2]) \o CRLF)
    ELSE None

serialize_cph(cph) ==
    IF IsSome(cph) THEN Some(RecordNames.CPH \o <<"/">> \o F10(cph.v) \o CRLF) ELSE None

serialize_polys(rec, poly) ==
    IF ~IsSome(poly) THEN None
    ELSE Some(format_field_names(
                <<RecordNames[rec] \o <<"/">>, FmtNat(poly.v.corner)>>
                  \o [i \in 1..Len(poly.v.poly) |-> fmt_f64(poly.v.poly[i], 10, 9, 3)]))

serialize_errs(header) ==
    Lines("ERR", [i \in 1..Len(Entries(header.err)) |->
                    join([k \in 1..4 |-> F10(header.err.v[i][k])], <<",">>)])

\* place_optional_string
Placed(o) == IF IsSome(o) THEN o.v ELSE <<>>

\* the comments of the header are not written
into_header_format(header) ==
    Concat(<<
        Placed(serialize_crr(header)), CRLF,
        Placed(serialize_ver(header)), CRLF,
        serialize_general_parameters(header), CRLF,
        serialize_detailed_parameters(header), CRLF,
        serialize_additional_parameters(header), CRLF,
        serialize_chart_edition_parameters(header), CRLF,
        serialize_ntm_parameters(header), CRLF,
        Placed(serialize_ost(header)), CRLF,
        serialize_ifm(header), CRLF,
        Placed(serialize_rgb("RGB", header.rgb)),
        Placed(serialize_rgb("DAY", header.day)),
        Placed(serialize_rgb("DSK", header.dsk)),
        Placed(serialize_rgb("NGT", header.ngt)),
        Placed(serialize_rgb("NGR", header.ngr)),
        Placed(serialize_rgb("GRY", header.gry)),
        Placed(serialize_rgb("PRC", header.prc)),
        Placed(serialize_rgb("PRG", header.prg)),
        Placed(serialize_refs(header.reference_point_record)),
        Placed(serialize_plys(header.ply)),
        Placed(serialize_dtm(header.dtm)),
        Placed(serialize_cph(header.phase_shift)),
        Placed(serialize_polys("WPX", header.wpx)), CRLF,
        Placed(serialize_polys("WPY", header.wpy)), CRLF,
        Placed(serialize_polys("PWX", header.pwx)), CRLF,
        Placed(serialize_polys("PWY", header.pwy)), CRLF,
        Placed(serialize_errs(header))
    >>)

(***************************************************************************)
(* ImageHeader::from_str.                                                  *)
(***************************************************************************)
GeneralParametersDefault ==
    [chart_name |-> None, chart_number |-> None, image_width_height |-> <<0, 0>>,
     drawing_units |-> None]

DetailedParametersDefault ==
    [chart_scale |-> None, geodetic_datum_name |-> None, projection_name |-> None,
     projection_parameter |-> None, projection_interval |-> None, sp |-> None,
     skew_angle |-> None, text_angle |-> None, depth_units |-> None,
     sounding_datum |-> None, x_resolution |-> None, y_resolution |-> None]

AdditionalParametersDefault ==
    [p1 |-> None, p2 |-> None, p3 |-> None, p4 |-> None, p5 |-> None, p6 |-> None,
     p7 |-> None, p8 |-> None, ec |-> None, gd |-> None, vc |-> None, sc |-> None,
     gc |-> None, rm |-> None, pc |-> None]

ChartEditionParametersDefault ==
    [source_edition |-> None, raster_edition |-> None, edition_date |-> None]

NTMRecordDefault ==
    [edition |-> None, date |-> None, base_flag |-> None, adn_record |-> None]

\* ImageHeader::empty: every record absent, no size, and Depth::default()
empty ==
    [comments |-> None, copyright_record |-> None, version |-> None,
     general_parameters |-> GeneralParametersDefault,
     detailed_parameters |-> None, additional_parameters |-> None,
     ced |-> None, ntm |-> None, ost |-> None, ifm |-> 1,
     rgb |-> None, day |-> None, dsk |-> None, ngt |-> None, ngr |-> None,
     gry |-> None, prc |-> None, prg |-> None,
     reference_point_record |-> None, phase_shift |-> None,
     wpx |-> None, pwx |-> None, wpy |-> None, pwy |-> None,
     err |-> None, ply |-> None, dtm |-> None]

\* the offsets at which RECORD_REGEX, [A-Z]{3}/|!, matches: no two of its
\* matches overlap, so find_iter yields every one of them
RecordMatches(input) ==
    { i \in 0..(Len(input) - 1) :
        \/ input[i + 1] = "!"
        \/ /\ i + 3 < Len(input)
           /\ \A k \in 1..3 : input[i + k] \in UpperChars
           /\ input[i + 4] = "/" }

\* the offsets at which FIELD_REGEX, [A-Z][A-Z1-9]=, matches
FieldMatches(input) ==
    { i \in 0..(Len(input) - 3) :
        /\ input[i + 1] \in UpperChars
        /\ input[i + 2] \in UpperChars \cup (DigitChars \ {"0"})
        /\ input[i + 3] = "=" }

\* get_boundaries: each match's start with the next one's, the last with
\* the length of the input
get_boundaries(matches, input) ==
    LET Bounds(starts) ==
            [k \in 1..Len(starts) |->
                <<starts[k], IF k < Len(starts) THEN starts[k + 1] ELSE Len(input)>>]
    IN  Bounds(SortedSeq(matches))

\* handle_opt_ires
handle_opt_ires(r) == IF r.ok THEN Some(r.v) ELSE None

\* separated_pair of two numbers below limit and a comma
parse_num_tuple(s, p, limit) ==
    LET Fail == [ok |-> FALSE, pos |-> p]
        Second(x, y) ==
            IF ~y.ok THEN Fail ELSE [ok |-> TRUE, v |-> <<x.v, y.v>>, pos |-> y.pos]
        First(x) ==
            IF ~x.ok \/ ~tag(s, x.pos, ",").ok THEN Fail
            ELSE Second(x, parse_uint(s, x.pos + 1, limit))
    IN  First(parse_uint(s, p, limit))

parse_num_tuple_u16(s, p) == parse_num_tuple(s, p, U16)
parse_num_tuple_usize(s, p) == parse_num_tuple(s, p, USIZE)

parse_index(s, p) ==
    LET Index(i) ==
            IF i.ok /\ tag(s, i.pos, ",").ok THEN [ok |-> TRUE, v |-> i.v, pos |-> i.pos + 1]
            ELSE [ok |-> FALSE, pos |-> p]
    IN  Index(parse_uint(s, p, USIZE))

parse_rgb(s, p) ==
    LET Fail == [ok |-> FALSE, pos |-> p]
        Blue(r, g, b) ==
            IF ~b.ok THEN Fail ELSE [ok |-> TRUE, v |-> <<r.v, g.v, b.v>>, pos |-> b.pos]
        Green(r, g) ==
            IF ~g.ok THEN Fail ELSE Blue(r, g, parse_uint(s, comma_or_multispace(s, g.pos), U8))
        Red(r) ==
            IF ~r.ok THEN Fail ELSE Green(r, parse_uint(s, comma_or_multispace(s, r.pos), U8))
    IN  Red(parse_uint(s, p, U8))

\* n streaming doubles from offset p; between two of them a comma (strict)
\* or comma_or_multispace
RECURSIVE doubles(_, _, _, _)
doubles(s, p, n, strict) ==
    LET Fail == [ok |-> FALSE, pos |-> p]
        Rest(d, r) ==
            IF ~r.ok THEN r ELSE [ok |-> TRUE, v |-> <<d.v>> \o r.v, pos |-> r.pos]
        Sep(d, c) ==
            IF ~c.ok THEN Fail ELSE Rest(d, doubles(s, c.pos, n - 1, strict))
        First(d) ==
            IF ~d.ok THEN Fail
            ELSE IF n = 1 THEN [ok |-> TRUE, v |-> <<d.v>>, pos |-> d.pos]
            ELSE Sep(d, IF strict THEN tag(s, d.pos, ",")
                        ELSE [ok |-> TRUE, pos |-> comma_or_multispace(s, d.pos)])
    IN  First(double(s, p))

parse_coords(s, p) == doubles(s, p, 2, TRUE)
parse_polynomial(s, p) == doubles(s, p, 6, FALSE)
parse_err(s, p) == doubles(s, p, 4, TRUE)

\* an index and a comma, then the three numbers of a colour, the two of a
\* pair of coordinates or the four of an error
Indexed(s, what) ==
    LET Rest(i) ==
            IF ~i.ok THEN [ok |-> FALSE, pos |-> 0]
            ELSE IF what = "rgb" THEN parse_rgb(s, i.pos)
            ELSE IF what = "coords" THEN parse_coords(s, i.pos)
            ELSE parse_err(s, i.pos)
    IN  Rest(parse_index(s, 0))

parse_index_rgb(s) == Indexed(s, "rgb")
parse_index_coords(s) == Indexed(s, "coords")
parse_index_err(s) == Indexed(s, "err")

parse_index_poly(s) ==
    LET Fail == [ok |-> FALSE, pos |-> 0]
        Poly(i, r) ==
            IF ~r.ok THEN Fail
            ELSE [ok |-> TRUE, v |-> [corner |-> i.v, poly |-> r.v], pos |-> r.pos]
        Index(i) == IF ~i.ok THEN Fail ELSE Poly(i, parse_polynomial(s, i.pos))
    IN  Index(parse_index(s, 0))

parse_ref(s) ==
    LET Fail == [ok |-> FALSE, pos |-> 0]
        Coords(px, co) ==
            IF ~co.ok THEN Fail
            ELSE [ok |-> TRUE, v |-> [pixels |-> px.v, coords |-> co.v], pos |-> co.pos]
        Pixels(px) ==
            IF ~px.ok \/ ~tag(s, px.pos, ",").ok THEN Fail
            ELSE Coords(px, parse_coords(s, px.pos + 1))
        Index(i) == IF ~i.ok THEN Fail ELSE Pixels(parse_num_tuple_usize(s, i.pos))
    IN  Index(parse_index(s, 0))

\* the parser of a field's data, by the kind of the field
FieldParse(kind, data) ==
    LET Of(str) ==
            CASE kind = "str"   -> Some(str)
              [] kind = "usize" -> handle_opt_ires(parse_uint(data, 0, USIZE))
              [] kind = "float" -> handle_opt_ires(float(data, 0))
              \* ED: the error of DATE_FORMAT is mapped to the result of the
              \* American format, and an error it stays
              [] kind = "ED"    -> handle_opt_ires(parse_from_str(str, DATE_FORMAT))
              [] kind = "ND"    -> handle_opt_ires(parse_from_str(str, AMERICAN_DATE_FORMAT))
              [] kind = "BD"    -> handle_opt_ires(parse_from_str(trim(str), AMERICAN_DATE_FORMAT))
    IN  Of(parse_till_comma_or_newline(data, 0).str)

\* the fields each record takes: where the value goes, and its kind
BsbFields ==
    [NA |-> <<"chart_name", "str">>, NU |-> <<"chart_number", "str">>,
     RA |-> <<"image_width_height", "RA">>, DU |-> <<"drawing_units", "usize">>]
KnpFields ==
    [SC |-> <<"chart_scale", "usize">>, GD |-> <<"geodetic_datum_name", "str">>,
     PR |-> <<"projection_name", "str">>, PP |-> <<"projection_parameter", "float">>,
     PI |-> <<"projection_interval", "float">>, SP |-> <<"sp", "str">>,
     SK |-> <<"skew_angle", "float">>, TA |-> <<"text_angle", "float">>,
     UN |-> <<"depth_units", "str">>, SD |-> <<"sounding_datum", "str">>,
     DX |-> <<"x_resolution", "float">>, DY |-> <<"y_resolution", "float">>]
KnqFields ==
    [P1 |-> <<"p1", "str">>, P2 |-> <<"p2", "float">>, P3 |-> <<"p3", "str">>,
     P4 |-> <<"p4", "str">>, P5 |-> <<"p5", "str">>, P6 |-> <<"p6", "str">>,
     P7 |-> <<"p7", "str">>, P8 |-> <<"p8", "str">>, EC |-> <<"ec", "str">>,
     GD |-> <<"gd", "str">>, VC |-> <<"vc", "str">>, SC |-> <<"sc", "str">>,
     PC |-> <<"pc", "str">>, RM |-> <<"rm", "str">>, GC |-> <<"gc", "str">>]
CedFields ==
    [SE |-> <<"source_edition", "usize">>, RE |-> <<"raster_edition", "usize">>,
     ED |-> <<"edition_date", "ED">>]
NtmFields ==
    [NE |-> <<"edition", "float">>, ND |-> <<"date", "ND">>,
     BF |-> <<"base_flag", "str">>, BD |-> <<"adn_record", "BD">>]

\* two characters that name no field taken for the name of the chart
FieldOf_any(chars) ==
    IF \E f \in Field : FieldNames[f] = chars
    THEN Some(CHOOSE f \in Field : FieldNames[f] = chars)
    ELSE Some("NA")

\* Field::from_str of the two characters at a match
FieldOf(chars) ==
    IF \E f \in Field : FieldNames[f] = chars
    THEN Some(CHOOSE f \in Field : FieldNames[f] = chars)
    ELSE None

\* the loop over the fields of a record, from the k-th boundary on: an
\* unknown field and a field of another record are skipped.  Only RA can
\* fail, with MissingWidthHeight.
RECURSIVE parse_fields(_, _, _, _, _)
parse_fields(input, bounds, k, fields, rec) ==
    IF k > Len(bounds) THEN [ok |-> TRUE, v |-> rec]
    ELSE LET Rest(set) == Eager(set, parse_fields(input, bounds, k + 1, fields, set))
             Size(to, ra) ==
                 IF ~ra.ok THEN [ok |-> FALSE, err |-> "MissingWidthHeight"]
                 ELSE Rest([rec EXCEPT ![to] = ra.v])
             Known(to, kind, data) ==
                 IF kind = "RA" THEN Size(to, parse_num_tuple_u16(data, 0))
                 ELSE Rest([rec EXCEPT ![to] = FieldParse(kind, data)])
             Named(name, data) ==
                 IF ~IsSome(name) \/ name.v \notin DOMAIN fields THEN Rest(rec)
                 ELSE Known(fields[name.v][1], fields[name.v][2], data)
         IN  Named(FieldOf(Slice(input, bounds[k][1], bounds[k][1] + 2)),
                   Slice(input, bounds[k][1] + 3, bounds[k][2]))

FieldsOf(input, fields, default) ==
    parse_fields(input, get_boundaries(FieldMatches(input), input), 1, fields, default)

parse_general_parameters(input) == FieldsOf(input, BsbFields, GeneralParametersDefault)
parse_detailed_parameters(input) == FieldsOf(input, KnpFields, DetailedParametersDefault).v
parse_additional_parameters(input) == FieldsOf(input, KnqFields, AdditionalParametersDefault).v
parse_chart_edition_parameters(input) == FieldsOf(input, CedFields, ChartEditionParametersDefault).v
parse_ntm(input) == FieldsOf(input, NtmFields, NTMRecordDefault).v

\* Vec::push on an Option<Vec<T>>
Pushed(o, x) == IF IsSome(o) THEN Some(Append(o.v, x)) ELSE Some(<<x>>)

\* the lower-case name of the palette field of a record
PaletteField(rec) ==
    CASE rec = "RGB" -> "rgb" [] rec = "DAY" -> "day" [] rec = "DSK" -> "dsk"
      [] rec = "NGT" -> "ngt" [] rec = "NGR" -> "ngr" [] rec = "GRY" -> "gry"
      [] rec = "PRC" -> "prc" [] rec = "PRG" -> "prg"
PolyField(rec) ==
    CASE rec = "WPX" -> "wpx" [] rec = "PWX" -> "pwx" [] rec = "WPY" -> "wpy"
      [] rec = "PWY" -> "pwy"

\* serde::record::parse: the header after the record, an error, or a panic
parse(input, record_name, image_header) ==
    LET record_data == IF record_name = "!" THEN Slice(input, 1, Len(input))
                       ELSE Slice(input, 4, Len(input))
        h  == image_header
        Ok(x) == [status |-> "ok", header |-> x]
        \* a parsed entry is appended, a failed one is dropped
        Push(name, r) == IF r.ok THEN Ok([h EXCEPT ![name] = Pushed(h[name], r.v)]) ELSE Ok(h)
        \* split_once on a line break, and the words after it joined by a space
        Crr(nl) ==
            IF nl = Len(record_data) THEN [status |-> "panic", at |-> "split CRR"]
            ELSE Ok([h EXCEPT !.copyright_record =
                      Some(Slice(record_data, 0, nl) \o CRLF
                             \o join(split_whitespace(
                                   Slice(record_data, nl + 1, Len(record_data))),
                                   <<" ">>))])
        Bsb(bsb) ==
            IF bsb.ok THEN Ok([h EXCEPT !.general_parameters = bsb.v])
            ELSE [status |-> "err", err |-> bsb.err]
        Ifm(ifm) ==
            IF ~ifm.ok THEN [status |-> "panic", at |-> "handle_ires"]
            ELSE IF ifm.v \notin {1, 4, 7} THEN [status |-> "err", err |-> "MissingDepth"]
            ELSE Ok([h EXCEPT !.ifm = ifm.v])
    IN  CASE record_name = "VER" ->
                Ok([h EXCEPT !.version = handle_opt_ires(float(record_data, 0))])
          [] record_name = "CRR" -> Crr(FirstIn(record_data, 0, {CR, LF}))
          [] record_name = "BSB" -> Bsb(parse_general_parameters(record_data))
          [] record_name = "KNP" ->
                Ok([h EXCEPT !.detailed_parameters =
                                 Some(parse_detailed_parameters(record_data))])
          [] record_name = "KNQ" ->
                Ok([h EXCEPT !.additional_parameters =
                                 Some(parse_additional_parameters(record_data))])
          [] record_name = "CED" ->
                Ok([h EXCEPT !.ced = Some(parse_chart_edition_parameters(record_data))])
          [] record_name = "NTM" ->
                Ok([h EXCEPT !.ntm = Some(parse_ntm(record_data))])
          [] record_name = "OST" ->
                Ok([h EXCEPT !.ost = handle_opt_ires(parse_uint(record_data, 0, USIZE))])
          [] record_name = "IFM" -> Ifm(parse_uint(record_data, 0, U8))
          [] record_name \in {"RGB", "DAY", "DSK", "NGT", "NGR", "GRY", "PRC", "PRG"} ->
                Push(PaletteField(record_name), parse_index_rgb(record_data))
          [] record_name = "REF" ->
                Push("reference_point_record", parse_ref(record_data))
          [] record_name \in {"WPX", "PWX", "WPY", "PWY"} ->
                Ok([h EXCEPT ![PolyField(record_name)] =
                                 handle_opt_ires(parse_index_poly(record_data))])
          [] record_name = "ERR" -> Push("err", parse_index_err(record_data))
          [] record_name = "PLY" -> Push("ply", parse_index_coords(record_data))
          [] record_name = "DTM" ->
                Ok([h EXCEPT !.dtm = handle_opt_ires(parse_coords(record_data, 0))])
          [] record_name = "CPH" ->
                Ok([h EXCEPT !.phase_shift = handle_opt_ires(float(record_data, 0))])
          [] record_name = "!" ->
                Ok([h EXCEPT !.comments =
                      Pushed(h.comments,
                             Slice(record_data, 0, FirstIn(record_data, 0, {LF})))])

\* Record::from_str of the three characters at a match, Comment at a '!'
RecordOfMatch(input, start) ==
    IF input[start + 1] = "!" THEN Some("!")
    ELSE LET chars == Slice(input, start, start + 3)
         IN  IF \E r \in Record : RecordNames[r] = chars
             THEN Some(CHOOSE r \in Record : RecordNames[r] = chars)
             ELSE None

\* the loop of from_str from the k-th boundary on: an unrecognised record is
\* skipped, and the first error or panic ends it
RECURSIVE from_str_loop(_, _, _, _)
from_str_loop(input, bounds, k, image_header) ==
    IF k > Len(bounds) THEN [status |-> "ok", header |-> image_header]
    ELSE LET Parsed(r) ==
                 IF r.status # "ok" THEN r
                 ELSE from_str_loop(input, bounds, k + 1, r.header)
             Named(name) ==
                 IF ~IsSome(name) THEN from_str_loop(input, bounds, k + 1, image_header)
                 ELSE Parsed(parse(Slice(input, bounds[k][1], bounds[k][2]), name.v,
                                   image_header))
         IN  Named(RecordOfMatch(input, bounds[k][1]))

\* <ImageHeader as FromStr>::from_str
from_str(input) ==
    from_str_loop(input, get_boundaries(RecordMatches(input), input), 1, empty)

(***************************************************************************)
(* image/bitmap.rs                                                         *)
(***************************************************************************)
\* BitMap::new, which panics when the data is not width * height bytes
BitMap_new(width, height, data) ==
    IF width * height # Len(data) THEN [status |-> "panic"]
    ELSE [status |-> "ok", v |-> [width |-> width, height |-> height, pixels |-> data]]

BitMap_empty(width, height) ==
    [width |-> width, height |-> height, pixels |-> [i \in 1..(width * height) |-> 0]]

\* BitMap::get_row_mut (and ::_get_row): the row y, when there is one
get_row_mut(bitmap, y) ==
    IF y < bitmap.height
    THEN Some(SubSeq(bitmap.pixels, y * bitmap.width + 1, y * bitmap.width + bitmap.width))
    ELSE None

\* the row from its first byte through the end of the buffer
get_row_through(bitmap, y) ==
    IF y < bitmap.height
    THEN Some(SubSeq(bitmap.pixels, y * bitmap.width + 1, Len(bitmap.pixels)))
    ELSE None

\* BitMap::_get_row: start_index = y * width, end_index = start_index + width
get_row(bitmap, y) ==
    IF y < bitmap.height
    THEN Some(SubSeq(bitmap.pixels, y * bitmap.width + 1, y * bitmap.width + bitmap.width))
    ELSE None

\* the pixel addressed by columns: x * height + y
set_pixel_index_by_column(bitmap, x, y, value) ==
    IF x < bitmap.width /\ y < bitmap.height
    THEN [bitmap EXCEPT !.pixels[x * bitmap.height + y + 1] = value]
    ELSE bitmap

\* BitMap::_set_pixel_index
set_pixel_index(bitmap, x, y, value) ==
    IF x < bitmap.width /\ y < bitmap.height
    THEN [bitmap EXCEPT !.pixels[y * bitmap.width + x + 1] = value]
    ELSE bitmap

\* the bitmap with the bytes of row y replaced, as a write through the
\* slice get_row_mut returned
set_row(bitmap, y, bytes) ==
    [bitmap EXCEPT !.pixels =
        [i \in 1..Len(bitmap.pixels) |->
            IF y * bitmap.width < i /\ i <= y * bitmap.width + bitmap.width
            THEN bytes[i - y * bitmap.width]
            ELSE bitmap.pixels[i]]]

(***************************************************************************)
(* image/mod.rs: KapImageFile                                              *)
(***************************************************************************)
width(header) == header.general_parameters.image_width_height[1]
height(header) == header.general_parameters.image_width_height[2]

\* new without its check of the buffer's length
KapImageFile_new_unchecked(header, raster_data) ==
    LET Image(b) ==
            IF b.status = "panic" THEN b
            ELSE [status |-> "ok", image |-> [header |-> header, bitmap |-> b.v]]
    IN  Image(BitMap_new(width(header), height(header), raster_data))

\* KapImageFile::new
KapImageFile_new(header, raster_data) ==
    IF Len(raster_data) # width(header) * height(header)
    THEN [status |-> "err", err |-> "MismatchWidthHeight"]
    ELSE LET Image(b) ==
                 IF b.status = "panic" THEN b
                 ELSE [status |-> "ok", image |-> [header |-> header, bitmap |-> b.v]]
         IN  Image(BitMap_new(width(header), height(header), raster_data))

\* the offset written with its least significant byte first
to_le_bytes(v) == <<v % U8, (v \div 2^8) % U8, (v \div 2^16) % U8, v \div 2^24>>

\* u32::to_be_bytes and u32::from_be_bytes.  The offsets of the model are
\* below 2^31: u32::try_from never fails on one it writes, and one it reads
\* with the top bit set is beyond every file, as is the value standing for it.
to_be_bytes(v) == <<v \div 2^24, (v \div 2^16) % U8, (v \div 2^8) % U8, v % U8>>
from_be_bytes(b) ==
    IF b[1] >= 2^7 THEN 2^30 + 2^29
    ELSE ((b[1] * U8 + b[2]) * U8 + b[3]) * U8 + b[4]

\* the position taken one byte late
stream_position_late(f) == Len(f) + 1

\* Seek::stream_position of the file written so far
stream_position(f) == Len(f)

\* the while of into_file with compressed_buf never cleared: what is written
\* for row i is the encoding of the rows 0..i
RECURSIVE write_rows_uncleared(_, _, _, _, _)
write_rows_uncleared(image, i, f, index, checks) ==
    LET Kept(n) ==
            Concat([j \in 1..n |->
                      compress_bsb_row(get_row_mut(image.bitmap, j - 1).v, image.header.ifm,
                                       j - 1, width(image.header), width(image.header)).buf])
        Written(c) ==
            IF c.panic \/ (checks /\ c.ovf) THEN [status |-> "panic", f |-> f, index |-> index]
            ELSE write_rows_uncleared(image, i + 1, f \o Kept(i + 1),
                                      Append(index, stream_position(f)), checks)
        Row(row_i) ==
            IF ~IsSome(row_i) THEN [status |-> "ok", f |-> f, index |-> index]
            ELSE Written(compress_bsb_row(row_i.v, image.header.ifm, i,
                                          width(image.header), width(image.header)))
    IN  Row(get_row_mut(image.bitmap, i))

\* the while of into_file, from row i on: the row is compressed, the
\* position of the file is pushed to the index, the row is written and
\* compressed_buf cleared.  checks: the build has overflow checks.
RECURSIVE write_rows(_, _, _, _, _)
write_rows(image, i, f, index, checks) ==
    LET Written(c) ==
            IF c.panic \/ (checks /\ c.ovf) THEN [status |-> "panic", f |-> f, index |-> index]
            ELSE write_rows(image, i + 1, f \o c.buf, Append(index, stream_position(f)),
                            checks)
        Row(row_i) ==
            IF ~IsSome(row_i) THEN [status |-> "ok", f |-> f, index |-> index]
            ELSE Written(compress_bsb_row(row_i.v, image.header.ifm, i,
                                          width(image.header), width(image.header)))
    IN  Row(get_row_mut(image.bitmap, i))

\* KapImageFile::into_file: the bytes of the file, and the offsets pushed to
\* its index
into_file(image, checks) ==
    LET Table(f, index) ==
            [status |-> "ok",
             f      |-> f \o Concat([k \in 1..Len(index) |-> to_be_bytes(index[k])]),
             index  |-> index]
        Rows(rows) ==
            IF rows.status # "ok" THEN rows
            ELSE Table(rows.f, Append(rows.index, stream_position(rows.f)))
    IN  Rows(write_rows(image, 0,
                        as_bytes(into_header_format(image.header))
                            \o <<26, 0, image.header.ifm>>,
                        <<>>, checks))

(***************************************************************************)
(* image/index.rs and KapImageFile::from_reader                            *)
(***************************************************************************)
\* BufRead::read_until from offset pos: the offset after the first byte
\* equal to delim, or the end of the file
read_until(file, pos, delim) ==
    Min(Least({ i \in pos..(Len(file) - 1) : file[i + 1] = delim }, Len(file)) + 1, Len(file))

\* read_index.  end_of_index - start_of_index is a u64 subtraction: below
\* zero it panics in a build with overflow checks, and wraps to a count no
\* height equals in one without.
read_index(file, h, checks) ==
    LET Table(start_of_index, end_of_index) ==
            IF end_of_index < start_of_index
            THEN (IF checks THEN [status |-> "panic"]
                  ELSE [status |-> "err", err |-> "Invalid index table size"])
            ELSE IF (end_of_index - start_of_index) \div 4 # h
            THEN [status |-> "err", err |-> "Invalid index table size"]
            ELSE [status |-> "ok",
                  index  |-> [k \in 1..h |->
                                from_be_bytes(SubSeq(file, start_of_index + 4 * k - 3,
                                                     start_of_index + 4 * k))],
                  start  |-> start_of_index]
    IN  IF Len(file) < 4 THEN [status |-> "err", err |-> "io"]
        ELSE Table(from_be_bytes(SubSeq(file, Len(file) - 3, Len(file))), Len(file) - 4)

\* decompress_bsb_from_reader from row i on: the reader is moved to the
\* row's offset and the row decoded into the row of the bitmap
RECURSIVE decompress_bsb_from_reader(_, _, _, _, _, _)
decompress_bsb_from_reader(DEPTH, file, bitmap, index, i, checks) ==
    LET Decoded(r) ==
            IF checks /\ r.ovf THEN [status |-> "panic"]
            ELSE IF ~r.ok THEN [status |-> "err", err |-> r.err]
            ELSE decompress_bsb_from_reader(DEPTH, file, set_row(bitmap, i, r.buf),
                                            index, i + 1, checks)
        Row(row_buf) ==
            IF ~IsSome(row_buf) THEN [status |-> "err", err |-> "Unexpected end of BitMap"]
            ELSE Decoded(decompress_bsb_row(DEPTH, row_buf.v, file, index[i + 1],
                                            bitmap.width))
    IN  IF i >= Len(index) \/ i >= bitmap.height THEN [status |-> "ok", bitmap |-> bitmap]
        ELSE Row(get_row_mut(bitmap, i))

\* KapImageFile::get_header: the bytes up to the first 0x1A, that byte
\* included, parsed.  Only ASCII is modelled: a byte above 0x7F stands for
\* an invalid UTF-8 sequence.
get_header(file) ==
    LET Text(bytes) ==
            IF \E k \in 1..Len(bytes) : bytes[k] >= 2^7
            THEN [status |-> "err", err |-> "FromUtf8"]
            ELSE from_str(from_utf8(bytes))
    IN  Text(SubSeq(file, 1, read_until(file, 0, 26)))

\* KapImageFile::from_reader
from_reader(file, checks) ==
    LET Rows(header, rows) ==
            IF rows.status # "ok" THEN rows
            ELSE [status |-> "ok", image |-> [header |-> header, bitmap |-> rows.bitmap]]
        Index(header, depth, idx) ==
            IF idx.status # "ok" THEN idx
            ELSE IF depth \notin {1, 4, 7} THEN [status |-> "panic"]
            ELSE Rows(header,
                      decompress_bsb_from_reader(
                          depth, file, BitMap_empty(width(header), height(header)),
                          idx.index, 0, checks))
        Depth(header, depth) ==
            IF header.ifm # depth
            THEN [status |-> "err", err |-> "Kap image file must contain image depth"]
            ELSE Index(header, depth, read_index(file, height(header), checks))
        \* the byte after the first 0x00 after the header, 0 when the file has none
        Data(header, data_start) ==
            Depth(header, IF data_start < Len(file) THEN file[data_start + 1] ELSE 0)
        Header(parsed) ==
            IF parsed.status # "ok" THEN parsed
            ELSE Data(parsed.header, read_until(file, read_until(file, 0, 26), 0))
    IN  Header(get_header(file))

\* ColorPalette and the field of the header each names
ColorPalette == {"rgb", "day", "dsk", "ngt", "ngr", "gry", "prc", "prg"}

\* the colour of a pixel index taken at the position of the index itself
as_palette_iter_from_zero(image, palette) ==
    LET rgbs == image.header[palette]
        px   == image.bitmap.pixels
    IN  IF ~IsSome(rgbs) THEN [status |-> "err", err |-> "get color palette"]
        ELSE IF \E k \in 1..Len(px) : px[k] + 1 > Len(rgbs.v) THEN [status |-> "panic"]
        ELSE [status |-> "ok", colors |-> [k \in 1..Len(px) |-> rgbs.v[px[k] + 1]]]

\* KapImageFile::as_palette_iter, collected: an error when the header has no
\* such palette; else the colour of every pixel, rgbs[p.saturating_sub(1)],
\* an index past the palette being a panic of the iteration
as_palette_iter(image, palette) ==
    LET rgbs == image.header[palette]
        px   == image.bitmap.pixels
        At(p) == IF p = 0 THEN 1 ELSE p
    IN  IF ~IsSome(rgbs) THEN [status |-> "err", err |-> "get color palette"]
        ELSE IF \E k \in 1..Len(px) : At(px[k]) > Len(rgbs.v) THEN [status |-> "panic"]
        ELSE [status |-> "ok", colors |-> [k \in 1..Len(px) |-> rgbs.v[At(px[k])]]]

(***************************************************************************)
(* The header texts the codec is run on: the lines of a chart of NOAA      *)
(* (serde/mod.rs, HEADER_12221_1_KAP), the required ones always and each   *)
(* of the others present or not.                                           *)
(***************************************************************************)
\* a comment line
CommentLine ==
    <<"!", "C", "o", "p", "y", "r", "i", "g", "h", "t", " ", "1", "9", "9", "9", ",", " ",
      "M", "a", "p", "t", "e", "c", "h", " ", "I", "n", "c", ".", " ", " ", "A", "l", "l",
      " ", "R", "i", "g", "h", "t", "s", " ", "R", "e", "s", "e", "r", "v", "e", "d", ".",
      CR, LF>>
\* a copyright record of two lines
CrrLines ==
    <<"C", "R", "R", "/", "C", "E", "R", "T", "I", "F", "I", "C", "A", "T", "E", " ", "O",
      "F", " ", "A", "U", "T", "H", "E", "N", "T", "I", "C", "I", "T", "Y", CR, LF, " ",
      " ", " ", " ", "P", "r", "o", "d", "u", "c", "e", "d", " ", "b", "y", " ", "N", "O",
      "A", "A", ".", " ", " ", "A", "l", "l", " ", "r", "i", "g", "h", "t", "s", " ", "r",
      "e", "s", "e", "r", "v", "e", "d", ".", CR, LF>>
VerLine ==
    <<"V", "E", "R", "/", "3", ".", "0", CR, LF>>
BsbLine ==
    <<"B", "S", "B", "/", "N", "A", "=", "C", "H", "E", "S", "A", "P", "E", "A", "K", "E",
      " ", "B", "A", "Y", ",", "N", "U", "=", "5", "5", "8", ",", "R", "A", "=", "3", ",",
      "2", ",", "D", "U", "=", "2", "5", "4", CR, LF>>
KnpLines ==
    <<"K", "N", "P", "/", "S", "C", "=", "8", "0", "0", "0", "0", ",", "G", "D", "=", "N",
      "A", "D", "8", "3", ",", "P", "R", "=", "M", "E", "R", "C", "A", "T", "O", "R", ",",
      "P", "P", "=", "3", "7", ".", "0", "8", "3", ",", "P", "I", "=", "1", "0", ".", "0",
      "0", "0", ",", "S", "P", "=", ",", "S", "K", "=", "0", ".", "0", "0", "0", "0", "0",
      "0", "0", CR, LF, " ", " ", " ", " ", "T", "A", "=", "9", "0", ".", "0", "0", "0",
      "0", "0", "0", "0", ",", "U", "N", "=", "F", "E", "E", "T", ",", "S", "D", "=", "M",
      "L", "L", "W", ",", "D", "X", "=", "8", ".", "0", "0", ",", "D", "Y", "=", "8", ".",
      "0", "0", CR, LF>>
KnqLines ==
    <<"K", "N", "Q", "/", "E", "C", "=", "R", "F", ",", "G", "D", "=", "N", "A", "R", "C",
      ",", "V", "C", "=", "U", "N", "K", "N", "O", "W", "N", ",", "S", "C", "=", "M", "L",
      "L", "W", ",", "P", "C", "=", "M", "C", ",", "P", "1", "=", "U", "N", "K", "N", "O",
      "W", "N", ",", "P", "2", "=", "3", "7", ".", "0", "8", "3", CR, LF, " ", " ", " ",
      " ", "P", "3", "=", "N", "O", "T", "_", "A", "P", "P", "L", "I", "C", "A", "B", "L",
      "E", ",", "P", "4", "=", "N", "O", "T", "_", "A", "P", "P", "L", "I", "C", "A", "B",
      "L", "E", ",", "G", "C", "=", "N", "O", "T", "_", "A", "P", "P", "L", "I", "C", "A",
      "B", "L", "E", ",", "R", "M", "=", "P", "O", "L", "Y", "N", "O", "M", "I", "A", "L",
      CR, LF>>
CedLine ==
    <<"C", "E", "D", "/", "S", "E", "=", "7", "0", ",", "R", "E", "=", "0", "1", ",", "E",
      "D", "=", "0", "9", "/", "1", "2", "/", "1", "9", "9", "8", CR, LF>>
NtmLine ==
    <<"N", "T", "M", "/", "N", "E", "=", "7", "0", ".", "0", "0", ",", "N", "D", "=", "1",
      "0", "/", "3", "0", "/", "1", "9", "9", "9", ",", "B", "F", "=", "O", "N", ",", "B",
      "D", "=", "1", "0", "/", "2", "6", "/", "1", "9", "9", "9", CR, LF>>
OstLine ==
    <<"O", "S", "T", "/", "1", CR, LF>>
IfmLine ==
    <<"I", "F", "M", "/", "4", CR, LF>>
RgbLines ==
    <<"R", "G", "B", "/", "1", ",", "0", ",", "0", ",", "0", CR, LF, "R", "G", "B", "/",
      "2", ",", "2", "5", "5", ",", "2", "5", "5", ",", "2", "5", "5", CR, LF>>
DtmLine ==
    <<"D", "T", "M", "/", "0", ".", "0", "0", "0", "0", "0", "0", "0", "0", "0", "0", ",",
      "0", ".", "0", "0", "0", "0", "0", "0", "0", "0", "0", "0", CR, LF>>
\* a polynomial whose coefficients are ten characters or more when written
WpxLong ==
    <<"W", "P", "X", "/", "2", ",", "8", "6", "3", "2", "6", "4", ".", "4", "9", "5", ",",
      "-", "1", "1", "4", "2", "0", ".", "2", "3", "1", ",", "5", ".", "0", "0", "0", "0",
      "0", "0", "0", "0", "0", "e", "-", "0", "0", "3", ",", "0", ".", "0", ",", "0", ".",
      "0", ",", "0", ".", "0", CR, LF>>
\* a polynomial with a coefficient that is written in fewer than ten characters
WpxShort ==
    <<"W", "P", "X", "/", "2", ",", "8", "6", "3", "2", "6", "4", ".", "4", "9", "5", ",",
      "1", ".", "5", ",", "0", ".", "0", ",", "0", ".", "0", ",", "0", ".", "0", ",", "0",
      ".", "0", CR, LF>>
ErrLine ==
    <<"E", "R", "R", "/", "1", ",", "0", ".", "0", "3", "9", ",", "0", ".", "1", "4", "5",
      ",", "0", ".", "0", "0", "1", ",", "0", ".", "0", "0", "3", CR, LF>>

\* the lines of a text in their order, with whether each may be left out
TextLines ==
    <<<<CommentLine, TRUE>>, <<CrrLines, TRUE>>, <<VerLine, FALSE>>, <<BsbLine, FALSE>>,
      <<KnpLines, TRUE>>, <<KnqLines, FALSE>>, <<CedLine, FALSE>>, <<NtmLine, TRUE>>,
      <<OstLine, FALSE>>, <<IfmLine, FALSE>>, <<RgbLines, FALSE>>, <<DtmLine, FALSE>>,
      <<WpxLong, TRUE>>, <<WpxShort, TRUE>>, <<ErrLine, TRUE>>>>

HeaderTexts ==
    { Concat([i \in 1..Len(TextLines) |-> IF i \in keep THEN TextLines[i][1] ELSE <<>>]) :
        keep \in { k \in SUBSET (1..Len(TextLines)) :
                     /\ \A i \in 1..Len(TextLines) : ~TextLines[i][2] => i \in k
                     /\ ~({13, 14} \subseteq k) } }

\* a KNQ record with P5 and P7 set and P6 and P8 not, and the text with it
KnqSet ==
    <<"K", "N", "Q", "/", "E", "C", "=", "R", "F", ",", "P", "5", "=", "A", ",", "P", "7",
      "=", "1", CR, LF>>
KnqTexts == { VerLine \o BsbLine \o KnqSet \o IfmLine }

\* texts whose BSB record is of 79, 80 and 81 characters on one line
LongName(n) == [k \in 1..n |-> "A"]
BsbOf(name) ==
    <<"B", "S", "B", "/", "N", "A", "=">> \o name
        \o <<",", "N", "U", "=", "5", "5", "8", ",", "R", "A", "=", "3", ",", "2", ",",
             "D", "U", "=", "2", "5", "4", CR, LF>>
WrapTexts == { VerLine \o BsbOf(LongName(n)) \o IfmLine : n \in {51, 52, 53} }
(***************************************************************************)
(* The rows the codec is run on: up to MaxRuns runs, each of a sample      *)
(* pixel value of the depth and a length around the one-, two- and         *)
(* three-byte thresholds of the three depths.                              *)
(***************************************************************************)
MaxRuns == 2

Depths == {1, 4, 7}
\* run lengths around the thresholds of the depth: a count leaves the first
\* byte above 2^(7 - depth) pixels, and the second above 2^7 times as many
RunLens(d) == {1, 2^(7 - d) - 1, 2^(7 - d), 2^(7 - d) + 1} \cup (IF d = 7 THEN {2, 2^7, 2^7 + 1} ELSE {})
LineNumbers == {0, 300}
PixelSamples(d) == {0, 1, 2^d - 1}

RECURSIVE Expand(_)
Expand(runs) ==
    IF runs = <<>> THEN <<>>
    ELSE [i \in 1..runs[1][2] |-> runs[1][1]] \o Expand(Tail(runs))

RowInputs(d) ==
    { Expand(runs) : runs \in UNION { [1..n -> PixelSamples(d) \X RunLens(d)] : n \in 0..MaxRuns } }

(***************************************************************************)
(* The row codec as a machine: a row is compressed, then decompressed.     *)
(***************************************************************************)
RowInit ==
    /\ \E d \in Depths, ln \in LineNumbers :
         \E px \in RowInputs(d) :
            row = [depth |-> d, line_number |-> ln, pixels |-> px]
    /\ enc = None
    /\ rowbuf = None
    /\ kap = None /\ disk = None /\ loaded = None /\ trail = <<>>
    /\ access = None

\* compress_bsb_row(row, &mut compressed_buf, depth, i, width_in, width_in),
\* as into_file calls it, on an empty compressed_buf
CompressRow ==
    /\ enc = None
    /\ LET w == Len(row.pixels)
           c == compress_bsb_row(row.pixels, row.depth, row.line_number, w, w)
       IN  enc' = [tag |-> "buf", panic |-> c.panic, ovf |-> c.ovf,
                   buf |-> c.buf, ret |-> c.ret]
    /\ UNCHANGED <<row, rowbuf, kap, disk, loaded, trail, access>>

\* decompress_bsb_row::<depth> of the compressed bytes into a zeroed row
\* buffer of the row's width
DecompressRow ==
    /\ enc # None
    /\ ~enc.panic
    /\ rowbuf = None
    /\ LET w == Len(row.pixels)
           r == decompress_bsb_row(row.depth, [i \in 1..w |-> 0], enc.buf, 0, w)
       IN  rowbuf' = [tag |-> "row"] @@ r
    /\ UNCHANGED <<row, enc, kap, disk, loaded, trail, access>>

RowNext == CompressRow \/ DecompressRow

SpecRow == RowInit /\ [][RowNext]_vars

\* C1: for every depth and every row whose bytes fit the depth, decoding the
\* bytes compress_bsb_row wrote into a zeroed buffer of the row's width gives
\* the row back
C1_RowRoundTrip ==
    rowbuf # None => (rowbuf.ok /\ rowbuf.buf = row.pixels)

C1_Witness ==
    /\ rowbuf # None
    /\ rowbuf.ok
    /\ row.depth = 4
    /\ Len(row.pixels) > 9
    /\ rowbuf.buf = row.pixels


(***************************************************************************)
(* The container as a machine: an image is made with KapImageFile::new,    *)
(* written with into_file and read back with from_reader.  The file read   *)
(* may also be one with a byte the writer did not write, as a file of      *)
(* another producer is.                                                    *)
(***************************************************************************)
\* the widths and heights of the images: none, one pixel, several rows,
\* a row longer than a run count of one byte, and the width 2^15
WideWidth == 2^15
Sizes == {<<0, 0>>, <<1, 1>>, <<2, 2>>, <<1, 3>>, <<9, 1>>, <<WideWidth, 1>>}

Palette == << <<0, 0, 0>>, <<255, 255, 255>>, <<10, 20, 30>> >>

\* a header as ImageHeader::builder() gives it: general parameters and
\* depth, and the RGB palette or none
BuiltHeader(d, size, rgb) ==
    [empty EXCEPT !.general_parameters =
                      [chart_name |-> Some(<<"A">>), chart_number |-> None,
                       image_width_height |-> size, drawing_units |-> None],
                  !.ifm = d,
                  !.rgb = rgb]

\* the headers of the images: every depth and size with the palette, and the
\* one-pixel image without one
Headers ==
    { BuiltHeader(d, size, Some(Palette)) : d \in Depths, size \in Sizes }
        \cup { BuiltHeader(d, <<1, 1>>, None) : d \in Depths }

\* pixel buffers of n bytes that fit the depth: every one of up to MaxRuns
\* bytes, of the longer ones those of one value and of two alternating, and
\* of the widest the one of zeros
Rasters(d, n) ==
    IF n <= MaxRuns THEN [1..n -> PixelSamples(d)]
    ELSE IF n >= WideWidth THEN { [i \in 1..n |-> 0] }
    ELSE { [i \in 1..n |-> IF i % 2 = 1 THEN a ELSE b] :
             a \in PixelSamples(d), b \in PixelSamples(d) }

\* the bytes a file of another producer may have where into_file wrote one
ForeignBytes == {1, 2, 4, 5, 7, 2^8 - 1}

\* how far from the start of the index the last four bytes of a file of
\* another producer may point
TableShifts == {0 - 4, 0 - 1, 1, 5}

\* the offset of the depth byte of a written file, and of the last byte of
\* its first row (of the depth byte when it has no row)
depth_at(d) == d.index[1] - 1
first_row_end(d) == IF Len(d.index) > 1 THEN d.index[2] - 1 ELSE d.index[1] - 1

FileInit ==
    /\ kap = None /\ disk = None /\ loaded = None
    /\ row = None /\ enc = None /\ rowbuf = None /\ trail = <<>>
    /\ access = None

\* KapImageFile::new(header, raster_data), on a buffer of the header's
\* width x height bytes or of one byte more or fewer
New ==
    /\ kap = None
    /\ \E header \in Headers, off \in {-1, 0, 1} :
         /\ width(header) * height(header) + off >= 0
         /\ width(header) < WideWidth \/ off = 0
         /\ \E raster \in Rasters(header.ifm, width(header) * height(header) + off) :
              kap' = [header |-> header, raster |-> raster,
                      new |-> KapImageFile_new(header, raster)]
    /\ UNCHANGED <<row, enc, rowbuf, disk, loaded, trail, access>>

\* KapImageFile::into_file(&self, path), in a build with overflow checks or
\* in one without
IntoFile ==
    /\ kap # None /\ kap.new.status = "ok"
    /\ disk = None
    /\ \E checks \in BOOLEAN :
         disk' = [foreign |-> FALSE, at |-> 0] @@ into_file(kap.new.image, checks)
    /\ UNCHANGED <<row, enc, rowbuf, kap, loaded, trail, access>>

\* the file is one of another producer: one byte differs from what
\* into_file wrote, the depth byte after the header's 0x1A, 0x00 or a byte of
\* the first row
Foreign ==
    /\ disk # None /\ disk.status = "ok" /\ ~disk.foreign
    /\ loaded = None
    /\ \E k \in depth_at(disk)..first_row_end(disk), b \in ForeignBytes :
         /\ disk.f[k + 1] # b
         /\ disk' = [disk EXCEPT !.f[k + 1] = b, !.foreign = TRUE, !.at = k]
    /\ UNCHANGED <<row, enc, rowbuf, kap, loaded, trail, access>>

\* the file is one of another producer: its last four bytes name another
\* start of the index than the one into_file wrote
ForeignTable ==
    /\ disk # None /\ disk.status = "ok" /\ ~disk.foreign
    /\ loaded = None
    /\ width(kap.header) < WideWidth
    /\ \E shift \in TableShifts :
         LET at == Len(disk.f) - 4
             start == disk.index[Len(disk.index)] + shift
         IN  disk' = [disk EXCEPT !.f = SubSeq(disk.f, 1, at) \o to_be_bytes(start),
                                  !.foreign = TRUE, !.at = at]
    /\ UNCHANGED <<row, enc, rowbuf, kap, loaded, trail, access>>

\* KapImageFile::from_file(path): from_reader on the file
FromReader ==
    /\ disk # None /\ disk.status = "ok"
    /\ loaded = None
    /\ \E checks \in BOOLEAN :
         loaded' = from_reader(disk.f, checks)
    /\ UNCHANGED <<row, enc, rowbuf, kap, disk, trail, access>>

FileNext == New \/ IntoFile \/ Foreign \/ ForeignTable \/ FromReader

SpecFile == FileInit /\ [][FileNext]_vars

(***************************************************************************)
(* The header codec as a machine: a header text is parsed with from_str,   *)
(* the header written with into_header_format, and so on in turn.  trail   *)
(* holds the texts and the results of the parses in the order they came.   *)
(***************************************************************************)
\* the calls made on one text or header
MaxSteps == 4

\* an entry of the trail: a text, the header of a parse, or a failed parse
\* with the error it returned ("panic" when it returned none)
Text(t) == [kind |-> "text", text |-> t, header |-> empty, err |-> ""]
Header(h) == [kind |-> "header", text |-> <<>>, header |-> h, err |-> ""]
Parsed(r) == IF r.status = "ok" THEN Header(r.header)
             ELSE [kind |-> "failed", text |-> <<>>, header |-> empty,
                   err |-> IF r.status = "panic" THEN "panic" ELSE r.err]

\* headers of ImageHeader::builder() with a palette of no entry
EmptyPalettes == { BuiltHeader(d, <<1, 1>>, Some(<<>>)) : d \in Depths }

\* a header text of a file, or a header of ImageHeader::builder()
HeaderInit ==
    /\ \/ \E t \in HeaderTexts \cup KnqTexts \cup WrapTexts : trail = <<Text(t)>>
       \/ \E h \in Headers \cup EmptyPalettes : trail = <<Header(h)>>
    /\ row = None /\ enc = None /\ rowbuf = None
    /\ kap = None /\ disk = None /\ loaded = None /\ access = None

\* ImageHeader::from_str on the text last written
FromStr ==
    /\ Len(trail) <= MaxSteps
    /\ trail[Len(trail)].kind = "text"
    /\ trail' = Append(trail, Parsed(from_str(trail[Len(trail)].text)))
    /\ UNCHANGED <<row, enc, rowbuf, kap, disk, loaded, access>>

\* ImageHeader::into_header_format on the header last parsed
IntoHeaderFormat ==
    /\ Len(trail) <= MaxSteps
    /\ trail[Len(trail)].kind = "header"
    /\ trail' = Append(trail, Text(into_header_format(trail[Len(trail)].header)))
    /\ UNCHANGED <<row, enc, rowbuf, kap, disk, loaded, access>>

HeaderNext == FromStr \/ IntoHeaderFormat

SpecHeader == HeaderInit /\ [][HeaderNext]_vars

\* the normalisations of a round trip: the whitespace of a comment and of
\* the copyright record collapsed, and a number taken at the precision it is
\* written with
Collapsed(s) == join(split_whitespace(s), <<" ">>)
AtPrecision(o, prec) ==
    IF IsSome(o) THEN handle_opt_ires(float(FmtFixed(o.v, prec), 0)) ELSE None
Normalised(h) ==
    [h EXCEPT
       !.comments = IF IsSome(@) THEN Some([k \in 1..Len(@.v) |-> Collapsed(@.v[k])]) ELSE @,
       !.copyright_record = IF IsSome(@) THEN Some(Collapsed(@.v)) ELSE @,
       !.detailed_parameters =
           IF IsSome(@)
           THEN Some([@.v EXCEPT !.x_resolution = AtPrecision(@, 2),
                                 !.y_resolution = AtPrecision(@, 2)])
           ELSE @,
       !.ntm = IF IsSome(@) THEN Some([@.v EXCEPT !.edition = AtPrecision(@, 2)]) ELSE @]

\* C3: the header parsed from the text into_header_format wrote of a header
\* is that header, up to the normalisations: what is set in the one is set
\* to the same value in the other, and what is absent in the one is absent in
\* the other
C3_HeaderRoundTrip ==
    \A i \in 1..(Len(trail) - 2) :
        trail[i].kind = "header" =>
            /\ trail[i + 2].kind = "header"
            /\ Normalised(trail[i + 2].header) = Normalised(trail[i].header)

\* a record that is set comes back with the value it had
C3_Witness ==
    /\ Len(trail) >= 4
    /\ trail[1].kind = "text" /\ trail[2].kind = "header" /\ trail[4].kind = "header"
    /\ IsSome(trail[2].header.detailed_parameters) /\ IsSome(trail[2].header.ntm)
    /\ trail[4].header.detailed_parameters = trail[2].header.detailed_parameters
    /\ trail[4].header.ntm = trail[2].header.ntm
    /\ trail[4].header.general_parameters = trail[2].header.general_parameters

\* C4: for a header text t, into_header_format of the header parsed from
\* into_header_format(from_str(t)) is the same string as
\* into_header_format(from_str(t))
C4_SerialiseIdempotent ==
    (trail # <<>> /\ trail[1].kind = "text") =>
        /\ \A i \in 1..Len(trail) : trail[i].kind # "failed"
        /\ Len(trail) >= 5 => trail[5].text = trail[3].text

\* a text with a polynomial whose written coefficients are parsed back
C4_Witness ==
    /\ Len(trail) >= 5
    /\ trail[1].kind = "text" /\ trail[5].kind = "text"
    /\ IsSome(trail[2].header.wpx)
    /\ trail[4].header.wpx = trail[2].header.wpx
    /\ trail[5].text = trail[3].text

\* the file on disk is the one into_file wrote, byte for byte
Written == disk # None /\ disk.status = "ok" /\ ~disk.foreign

\* the bytes into_file writes before the first row: the header text, 0x1A,
\* 0x00 and the depth byte
Preamble(image) == as_bytes(into_header_format(image.header)) \o <<26, 0, image.header.ifm>>

\* the RLE stream of row i of the image (rows counted from 0)
RowStream(image, i) ==
    compress_bsb_row(get_row_mut(image.bitmap, i).v, image.header.ifm, i,
                     width(image.header), width(image.header)).buf

\* C2: an image of depth 4 or 7 with an RGB palette, made by new from pixels
\* that fit the depth, is written by into_file, and from_reader on the file
\* gives an image of the same width, height and pixels whose RGB iteration
\* gives the same colours
C2_FileRoundTrip ==
    (/\ kap # None /\ kap.new.status = "ok"
     /\ kap.header.ifm \in {4, 7} /\ IsSome(kap.header.rgb)
     /\ disk # None /\ ~disk.foreign)
        => /\ disk.status = "ok"
           /\ loaded # None =>
                /\ loaded.status = "ok"
                /\ loaded.image.bitmap = kap.new.image.bitmap
                /\ as_palette_iter(loaded.image, "rgb") = as_palette_iter(kap.new.image, "rgb")

C2_Witness ==
    /\ Written /\ loaded # None /\ loaded.status = "ok"
    /\ kap.header.ifm = 7 /\ IsSome(kap.header.rgb)
    /\ kap.header.general_parameters.image_width_height = <<2, 2>>
    /\ loaded.image.bitmap = kap.new.image.bitmap
    /\ as_palette_iter(loaded.image, "rgb").status = "ok"
    /\ as_palette_iter(loaded.image, "rgb") = as_palette_iter(kap.new.image, "rgb")

\* C5: the index of a file into_file wrote has, before its last entry, one
\* offset per row; they increase strictly, the first is the offset after the
\* depth byte, and at each starts the RLE stream of its row, the streams
\* lying one after the other up to the table
C5_RowOffsets ==
    Written =>
        LET image == kap.new.image
            N     == height(image.header)
            index == disk.index
        IN  /\ Len(index) = N + 1
            /\ \A i \in 1..(N - 1) : index[i] < index[i + 1]
            /\ index[1] = Len(Preamble(image))
            /\ \A i \in 1..N :
                 /\ index[i + 1] = index[i] + Len(RowStream(image, i - 1))
                 /\ SubSeq(disk.f, index[i] + 1, index[i + 1]) = RowStream(image, i - 1)

C5_Witness ==
    /\ Written
    /\ height(kap.header) = 3
    /\ Len(disk.index) = 4
    /\ disk.index[1] < disk.index[2] /\ disk.index[2] < disk.index[3]
    /\ SubSeq(disk.f, disk.index[3] + 1, disk.index[4]) = RowStream(kap.new.image, 2)

\* C6: the last 4 bytes of a file into_file wrote are, as a big-endian u32,
\* the offset at which the table starts; between that offset and the last 4
\* bytes lie exactly height entries of 4 bytes, the offsets of the rows; and
\* read_index on the file with the header's height gives those offsets
C6_IndexTable ==
    Written =>
        LET f == disk.f
            N == height(kap.header)
            S == from_be_bytes(SubSeq(f, Len(f) - 3, Len(f)))
        IN  /\ S = disk.index[N + 1]
            /\ S = Len(Preamble(kap.new.image))
                     + Len(Concat([i \in 1..N |-> RowStream(kap.new.image, i - 1)]))
            /\ Len(f) - 4 - S = 4 * N
            /\ \A k \in 1..N :
                 <<f[S + 4 * k - 3], f[S + 4 * k - 2], f[S + 4 * k - 1], f[S + 4 * k]>>
                     = <<0, 0, disk.index[k] \div U8, disk.index[k] % U8>>
            /\ \A checks \in BOOLEAN :
                 LET idx == read_index(f, N, checks)
                 IN  /\ idx.status = "ok"
                     /\ idx.index = SubSeq(disk.index, 1, N)
                     /\ idx.start = S

C6_Witness ==
    /\ Written
    /\ height(kap.header) = 2
    /\ Len(disk.f) - 4 - disk.index[3] = 8
    /\ read_index(disk.f, 2, TRUE).status = "ok"
    /\ read_index(disk.f, 2, TRUE).index = <<disk.index[1], disk.index[2]>>

\* C7: new returns the dimension-mismatch error exactly when the buffer is
\* not width x height bytes long, and does not panic; a bitmap new or
\* from_reader returns has the header's width and height and width x height
\* bytes
C7_BitmapMatchesHeader ==
    /\ kap # None =>
         /\ (kap.new.status = "err") <=> (Len(kap.raster) # width(kap.header) * height(kap.header))
         /\ kap.new.status = "err" => kap.new.err = "MismatchWidthHeight"
         /\ kap.new.status # "panic"
         /\ kap.new.status = "ok" =>
              /\ kap.new.image.bitmap.width = width(kap.header)
              /\ kap.new.image.bitmap.height = height(kap.header)
              /\ Len(kap.new.image.bitmap.pixels) = width(kap.header) * height(kap.header)
              /\ kap.new.image.bitmap.pixels = kap.raster
    /\ (loaded # None /\ loaded.status = "ok") =>
         /\ loaded.image.bitmap.width = width(loaded.image.header)
         /\ loaded.image.bitmap.height = height(loaded.image.header)
         /\ Len(loaded.image.bitmap.pixels)
                = width(loaded.image.header) * height(loaded.image.header)

C7_Witness ==
    /\ kap # None /\ kap.new.status = "err"
    /\ Len(kap.raster) = width(kap.header) * height(kap.header) + 1
    /\ width(kap.header) = 2

\* C8: every byte of the bitmap from_reader returns is a pixel index of the
\* depth, 0..2^depth - 1, whatever the run bytes of the file
C8_PixelsFitDepth ==
    (loaded # None /\ loaded.status = "ok") =>
        \A k \in 1..Len(loaded.image.bitmap.pixels) :
            /\ 0 <= loaded.image.bitmap.pixels[k]
            /\ loaded.image.bitmap.pixels[k] < 2^(loaded.image.header.ifm)

C8_Witness ==
    /\ loaded # None /\ loaded.status = "ok"
    /\ disk.foreign /\ disk.at > depth_at(disk)
    /\ loaded.image.header.ifm = 4
    /\ loaded.image.bitmap.pixels # kap.raster
    /\ \A k \in 1..Len(loaded.image.bitmap.pixels) : loaded.image.bitmap.pixels[k] < 2^4

\* the depth byte of the file on disk
depth_byte == disk.f[depth_at(disk) + 1]

\* C9: a file whose depth byte is 1, 4 or 7 and differs from the header's
\* IFM is not rejected by from_reader for the difference
C9_DepthMismatchAccepted ==
    (/\ loaded # None
     /\ depth_byte \in {1, 4, 7}
     /\ depth_byte # kap.header.ifm)
        => ~(loaded.status = "err" /\ loaded.err = "Kap image file must contain image depth")

C9_Witness ==
    /\ loaded # None
    /\ depth_byte = 7 /\ kap.header.ifm = 4
    /\ loaded.status = "err"

\* C10: from_reader on a file whose depth byte is not 1, 4 or 7 returns the
\* error UnsupportedDepth
C10_UnsupportedDepth ==
    (loaded # None /\ depth_byte \notin {1, 4, 7})
        => (loaded.status = "err" /\ loaded.err = "UnsupportedDepth")

C10_Witness ==
    /\ loaded # None
    /\ depth_byte = 5
    /\ loaded.status = "err"

\* the offset the last four bytes of the file on disk name as the start of
\* its index, and the offset of those four bytes
index_start == from_be_bytes(SubSeq(disk.f, Len(disk.f) - 3, Len(disk.f)))
index_end == Len(disk.f) - 4

\* the header and the depth byte of the file on disk are those into_file
\* wrote: from_reader gets as far as the index
ReachesIndex == disk # None /\ disk.status = "ok" /\ depth_byte = kap.header.ifm

\* C11: from_reader of a file whose header and depth byte are sound fails
\* with the invalid index size error unless the distance from the start of
\* the index to the last four bytes is a multiple of 4 and a quarter of it is
\* the height of the header
C11_IndexSizeValidated ==
    (ReachesIndex /\ loaded # None)
        => \/ /\ (index_end - index_start) % 4 = 0
              /\ (index_end - index_start) \div 4 = height(kap.header)
           \/ /\ loaded.status = "err"
              /\ loaded.err = "Invalid index table size"

\* a file whose index starts one byte early was read, and not refused for
\* the size of its index
C11_Witness ==
    /\ ReachesIndex /\ loaded # None
    /\ height(kap.header) = 2
    /\ index_end - index_start = 4 * height(kap.header) + 1
    /\ ~(loaded.status = "err" /\ loaded.err = "Invalid index table size")
(***************************************************************************)
(* from_str on texts that lack a record or a field, or have one that is    *)
(* malformed, or that have a line or a field more than a text it parses.   *)
(***************************************************************************)
\* a BSB record with no RA field
BsbNoRa ==
    <<"B", "S", "B", "/", "N", "A", "=", "C", "H", "E", "S", "A", "P", "E", "A", "K",
      "E", " ", "B", "A", "Y", ",", "N", "U", "=", "5", "5", "8", CR, LF>>
\* a BSB record whose RA is not two numbers
BsbBadRa ==
    <<"B", "S", "B", "/", "N", "A", "=", "C", "H", "E", "S", "A", "P", "E", "A", "K",
      "E", " ", "B", "A", "Y", ",", "R", "A", "=", "x", ",", "2", CR, LF>>
\* an IFM record of a depth that is none of 1, 4 and 7
IfmOther ==
    <<"I", "F", "M", "/", "5", CR, LF>>
\* an IFM record with no number
IfmNoNumber ==
    <<"I", "F", "M", "/", "x", CR, LF>>
\* a copyright record that ends the text with no line break
CrrNoBreak ==
    <<"C", "R", "R", "/", "N", "O", "A", "A">>

\* a CED record whose date is month, day, year and no day, month, year
CedAmerican ==
    <<"C", "E", "D", "/", "S", "E", "=", "7", "0", ",", "R", "E", "=", "0", "1", ",",
      "E", "D", "=", "1", "2", "/", "3", "0", "/", "1", "9", "9", "8", CR, LF>>
\* a CED record whose date is no date in either order
CedNoDate ==
    <<"C", "E", "D", "/", "S", "E", "=", "7", "0", ",", "R", "E", "=", "0", "1", ",",
      "E", "D", "=", "3", "0", "/", "3", "0", "/", "1", "9", "9", "8", CR, LF>>

\* texts with the edition date in each order and in none
DatedTexts ==
    { VerLine \o BsbLine \o CedLine \o NtmLine \o IfmLine,
      VerLine \o BsbLine \o CedAmerican \o NtmLine \o IfmLine,
      VerLine \o BsbLine \o CedNoDate \o IfmLine }

\* palette lines with the second colour before the first, and with the
\* colours 1 and 3 and no 2
RgbSwapped ==
    <<"R", "G", "B", "/", "2", ",", "2", "5", "5", ",", "2", "5", "5", ",", "2", "5",
      "5", CR, LF, "R", "G", "B", "/", "1", ",", "0", ",", "0", ",", "0", CR, LF>>
DayGap ==
    <<"D", "A", "Y", "/", "1", ",", "0", ",", "0", ",", "0", CR, LF, "D", "A", "Y", "/",
      "3", ",", "9", ",", "9", ",", "9", CR, LF>>

\* texts with palette lines in the order of their indexes, out of it, and
\* with an index left out
PaletteTexts ==
    { VerLine \o BsbLine \o IfmLine \o RgbLines,
      VerLine \o BsbLine \o IfmLine \o RgbSwapped,
      VerLine \o BsbLine \o IfmLine \o RgbLines \o DayGap }

\* the texts short of a record or a field, or with a malformed one
DeficientTexts ==
    { VerLine \o BsbLine \o RgbLines,
      VerLine \o BsbNoRa \o IfmLine \o RgbLines,
      VerLine \o IfmLine \o RgbLines,
      VerLine \o BsbBadRa \o IfmLine,
      VerLine \o BsbLine \o IfmOther,
      VerLine \o BsbLine \o IfmNoNumber,
      VerLine \o BsbLine \o IfmLine \o CrrNoBreak }

\* the text has no IFM record; it has no RA field
LacksIfm(t) == ~\E i \in RecordMatches(t) : Slice(t, i, i + 3) = <<"I", "F", "M">>
LacksRa(t) == ~\E i \in 0..(Len(t) - 3) : Slice(t, i, i + 3) = <<"R", "A", "=">>

\* lines of records from_str does not know, and fields no record has
UnknownRecords ==
    { <<"X", "Y", "Z", "/", "1", ",", "2", CR, LF>>,
      <<"Q", "Q", "Q", "/", "N", "A", "=", "B", ",", "R", "A", "=", "9", ",", "9", CR, LF>> }
UnknownFields ==
    { <<"Z", "Z", "=", "5">>,
      <<"Q", "9", "=", "A", " ", "B">> }

\* the texts a line or a field is put into: the lines of the chart without
\* those that may be left out, and all of them but the long polynomial
TextOfLines(keep) ==
    Concat([i \in 1..Len(TextLines) |-> IF i \in keep THEN TextLines[i][1] ELSE <<>>])
BaseTexts ==
    { TextOfLines({ i \in 1..Len(TextLines) : ~TextLines[i][2] }),
      TextOfLines((1..Len(TextLines)) \ {13}) }

\* the text t with u put in at offset at
Inserted(t, at, u) == Slice(t, 0, at) \o u \o Slice(t, at, Len(t))

\* where a line can be put into a text: before a record, and at the end
RecordStarts(t) == RecordMatches(t) \cup {Len(t)}

\* the records whose data are KEY=VALUE fields
FieldRecords ==
    { <<"B", "S", "B">>, <<"K", "N", "P">>, <<"K", "N", "Q">>, <<"C", "E", "D">>,
      <<"N", "T", "M">> }

\* where a field can be put into a text: before a field of such a record,
\* and before the line break that ends the record
FieldStarts(t) ==
    LET bounds == get_boundaries(RecordMatches(t), t)
        InRecord(k) ==
            IF Slice(t, bounds[k][1], bounds[k][1] + 3) \notin FieldRecords THEN {}
            ELSE { bounds[k][1] + 4 + j :
                     j \in FieldMatches(Slice(t, bounds[k][1] + 4, bounds[k][2])) }
    IN  UNION { InRecord(k) : k \in 1..Len(bounds) }
FieldEnds(t) ==
    LET bounds == get_boundaries(RecordMatches(t), t)
    IN  { bounds[k][2] - 2 : k \in { n \in 1..Len(bounds) :
            /\ Slice(t, bounds[n][1], bounds[n][1] + 3) \in FieldRecords
            /\ Slice(t, bounds[n][2] - 2, bounds[n][2]) = <<CR, LF>> } }

\* a text that is parsed as it is or after a line or a field is put in, or a
\* deficient one
ParseInit ==
    /\ \E t \in BaseTexts \cup DeficientTexts \cup DatedTexts \cup PaletteTexts :
         trail = <<Text(t)>>
    /\ row = None /\ enc = None /\ rowbuf = None
    /\ kap = None /\ disk = None /\ loaded = None /\ access = None

\* a line of an unknown record is put into the text
InsertRecord ==
    /\ Len(trail) = 1 /\ trail[1].text \in BaseTexts
    /\ \E at \in RecordStarts(trail[1].text), u \in UnknownRecords :
         trail' = Append(trail, Text(Inserted(trail[1].text, at, u)))
    /\ UNCHANGED <<row, enc, rowbuf, kap, disk, loaded, access>>

\* an unknown field is put into a record of the text
InsertField ==
    /\ Len(trail) = 1 /\ trail[1].text \in BaseTexts
    /\ \E u \in UnknownFields :
         \/ \E at \in FieldStarts(trail[1].text) :
              trail' = Append(trail, Text(Inserted(trail[1].text, at, u \o <<",">>)))
         \/ \E at \in FieldEnds(trail[1].text) :
              trail' = Append(trail, Text(Inserted(trail[1].text, at, <<",">> \o u)))
    /\ UNCHANGED <<row, enc, rowbuf, kap, disk, loaded, access>>

ParseNext == InsertRecord \/ InsertField \/ FromStr

SpecParse == ParseInit /\ [][ParseNext]_vars

\* C12: from_str of a text with no IFM record fails with the error of a
\* missing depth, and of a text with no RA field with the error of a missing
\* width and height; a header is returned only for a text that has both
C12_RequiredFields ==
    \A i \in 1..(Len(trail) - 1) :
        (trail[i].kind = "text" /\ trail[i + 1].kind # "text") =>
            /\ LacksIfm(trail[i].text) =>
                 (trail[i + 1].kind = "failed" /\ trail[i + 1].err = "MissingDepth")
            /\ LacksRa(trail[i].text) =>
                 (trail[i + 1].kind = "failed" /\ trail[i + 1].err = "MissingWidthHeight")

\* a text with no IFM record was parsed and a header of depth 1 returned
C12_Witness ==
    /\ Len(trail) = 2 /\ trail[1].kind = "text" /\ LacksIfm(trail[1].text)
    /\ ~LacksRa(trail[1].text)
    /\ trail[2].kind = "header" /\ trail[2].header.ifm = 1

\* C13: no call of from_str panics: what it cannot parse it reports as an
\* error value
C13_NeverPanics ==
    \A i \in 1..Len(trail) : trail[i].err # "panic"

\* a text with a depth that is none of 1, 4 and 7 was refused with an error
\* value
C13_Witness ==
    /\ Len(trail) = 2 /\ trail[1].kind = "text"
    /\ EndsWith(trail[1].text, IfmOther)
    /\ trail[2].kind = "failed" /\ trail[2].err = "MissingDepth"

\* C17: a text with a line of an unknown record put before a record or at
\* the end, or with an unknown field put into a BSB, KNP, KNQ, CED or NTM
\* record, is parsed to the header the text is parsed to without it
C17_UnknownSkipped ==
    (Len(trail) = 3 /\ trail[2].kind = "text") =>
        /\ trail[3].kind = "header"
        /\ trail[3] = Parsed(from_str(trail[1].text))

\* an unknown field was put into the KNQ record of a text, and the header
\* parsed has the additional parameters of the text
C17_Witness ==
    /\ Len(trail) = 3 /\ trail[2].kind = "text" /\ trail[3].kind = "header"
    /\ Len(trail[2].text) = Len(trail[1].text) + 5
    /\ \E at \in FieldStarts(trail[1].text) :
         /\ Slice(trail[1].text, at, at + 3) = <<"P", "3", "=">>
         /\ trail[2].text = Inserted(trail[1].text, at, <<"Z", "Z", "=", "5", ",">>)
    /\ IsSome(trail[3].header.additional_parameters)
    /\ trail[3].header = from_str(trail[1].text).header

(***************************************************************************)
(* The row decoder on streams that are not the whole encoding of the row:  *)
(* the bytes compress_bsb_row wrote cut short, and bytes of run counts     *)
(* that no row has.                                                        *)
(***************************************************************************)
\* streams of another producer: none, and counts of three and four bytes
\* with every bit set
ForeignStreams ==
    { <<>>, <<2^8 - 1, 2^8 - 1, 2^7 - 1>>, <<0, 2^8 - 1, 2^8 - 1, 2^7 - 1>>,
      <<0, 2^8 - 1, 2^8 - 1, 2^8 - 1, 2^7 - 1>> }

\* the reader ends after the first n bytes of the row's encoding
CutStream ==
    /\ enc # None /\ ~enc.panic /\ "whole" \notin DOMAIN enc
    /\ rowbuf = None
    /\ \E n \in 0..(Len(enc.buf) - 1) :
         enc' = [tag |-> "buf", panic |-> FALSE, ovf |-> enc.ovf,
                 buf |-> SubSeq(enc.buf, 1, n), ret |-> enc.ret, whole |-> Len(enc.buf)]
    /\ UNCHANGED <<row, rowbuf, kap, disk, loaded, trail, access>>

\* the reader holds a stream of another producer
ForeignStream ==
    /\ enc = None
    /\ \E stream \in ForeignStreams :
         enc' = [tag |-> "buf", panic |-> FALSE, ovf |-> FALSE,
                 buf |-> stream, ret |-> 0, whole |-> 0]
    /\ UNCHANGED <<row, rowbuf, kap, disk, loaded, trail, access>>

StreamNext == CompressRow \/ CutStream \/ ForeignStream \/ DecompressRow

SpecStream == RowInit /\ [][StreamNext]_vars

\* C14: decompress_bsb_row ends, for every stream and width, with all the
\* pixels of the row deposited or with the error "Unexpected stream end", in
\* every build; it ends with the error when the stream is the row's encoding
\* cut before the last byte of its last run
C14_StreamEnd ==
    rowbuf # None =>
        /\ ~rowbuf.ovf
        /\ rowbuf.ok \/ rowbuf.err = StreamEnd
        /\ ("whole" \in DOMAIN enc /\ Len(enc.buf) < enc.whole - 1) =>
              (~rowbuf.ok /\ rowbuf.err = StreamEnd)

\* the encoding of a row of two runs, cut after its first run, was decoded
\* and the error returned
C14_Witness ==
    /\ rowbuf # None /\ ~rowbuf.ok /\ rowbuf.err = StreamEnd /\ ~rowbuf.ovf
    /\ "whole" \in DOMAIN enc /\ enc.whole > 0
    /\ row.depth = 7 /\ row.pixels = <<1, 1, 0>>
    /\ Len(enc.buf) = 2

(***************************************************************************)
(* The accessors of an image: as_palette_iter of KapImageFile, and the     *)
(* pixel and row accessors of its BitMap.  access holds the last call, its *)
(* arguments and what it returned.                                         *)
(***************************************************************************)
\* the values set_pixel_index is given: one no raster holds, and 0
PixelValues == {0, 9}

\* KapImageFile::new on a header whose palette is of kind p, and a buffer
\* of the header's width x height bytes
NewPaletted ==
    /\ kap = None
    /\ \E p \in ColorPalette, h \in Headers :
         /\ width(h) < WideWidth
         /\ \E raster \in Rasters(h.ifm, width(h) * height(h)) :
              LET header == [h EXCEPT !.rgb = None, ![p] = h.rgb]
              IN  kap' = [header |-> header, raster |-> raster,
                          new |-> KapImageFile_new(header, raster)]
    /\ UNCHANGED <<row, enc, rowbuf, disk, loaded, trail, access>>

\* image.as_palette_iter(palette), the iterator collected
AsPaletteIter ==
    /\ kap # None /\ kap.new.status = "ok" /\ access = None
    /\ \E p \in ColorPalette :
         access' = [call |-> "as_palette_iter", palette |-> p,
                    got |-> as_palette_iter(kap.new.image, p)]
    /\ UNCHANGED <<row, enc, rowbuf, kap, disk, loaded, trail>>

\* bitmap._set_pixel_index(x, y, value), in the bitmap and beside it
SetPixelIndex ==
    /\ kap # None /\ kap.new.status = "ok" /\ access = None
    /\ \E x \in 0..width(kap.header), y \in 0..height(kap.header), value \in PixelValues :
         access' = [call |-> "set_pixel_index", x |-> x, y |-> y, value |-> value,
                    got |-> set_pixel_index(kap.new.image.bitmap, x, y, value)]
    /\ UNCHANGED <<row, enc, rowbuf, kap, disk, loaded, trail>>

\* bitmap._get_row(y) and bitmap.get_row_mut(y), of a row and below the last
GetRow ==
    /\ kap # None /\ kap.new.status = "ok" /\ access = None
    /\ \E y \in 0..(height(kap.header) + 1) :
         access' = [call |-> "get_row", y |-> y,
                    got |-> get_row(kap.new.image.bitmap, y),
                    got_mut |-> get_row_mut(kap.new.image.bitmap, y)]
    /\ UNCHANGED <<row, enc, rowbuf, kap, disk, loaded, trail>>

AccessNext == NewPaletted \/ AsPaletteIter \/ SetPixelIndex \/ GetRow

SpecAccess == FileInit /\ [][AccessNext]_vars

\* as_palette_iter was the last call
PaletteAsked == access # None /\ access.call = "as_palette_iter"

\* the palette asked for, when the header has it
Asked == kap.header[access.palette]

\* C15: as_palette_iter returns the error NonExistentPalette when the
\* header has no palette of the kind asked for, and an iterator when it has
\* one, for each of the eight kinds
C15_NonExistentPalette ==
    PaletteAsked =>
        IF IsSome(Asked) THEN access.got.status # "err"
        ELSE access.got.status = "err" /\ access.got.err = "NonExistentPalette"

\* a palette the header lacks was asked for and an error returned
C15_Witness ==
    /\ PaletteAsked /\ access.palette = "ngt"
    /\ IsSome(kap.header.day) /\ ~IsSome(Asked)
    /\ access.got.status = "err"

C18_SetPixelIndex ==
    (access # None /\ access.call = "set_pixel_index") =>
        LET before == kap.new.image.bitmap
            after  == access.got
        IN  /\ after.width = before.width /\ after.height = before.height
            /\ Len(after.pixels) = Len(before.pixels)
            /\ IF access.x >= before.width \/ access.y >= before.height
               THEN after = before
               ELSE \A i \in 0..(Len(before.pixels) - 1) :
                      after.pixels[i + 1] =
                          IF i = access.y * before.width + access.x THEN access.value
                          ELSE before.pixels[i + 1]

\* the pixel (0, 2) of a bitmap one wide and three high was set
C18_Witness ==
    /\ access # None /\ access.call = "set_pixel_index"
    /\ kap.new.image.bitmap.width = 1 /\ kap.new.image.bitmap.height = 3
    /\ access.x = 0 /\ access.y = 2 /\ access.value = 9
    /\ access.got.pixels[3] = 9
    /\ access.got.pixels[1] = kap.raster[1] /\ access.got.pixels[2] = kap.raster[2]

\* C19: row(y) and row_mut(y) give no row when y >= height, and else the
\* width bytes from y * width on; the rows 0..height-1, one after the other,
\* are the buffer
C19_Rows ==
    (access # None /\ access.call = "get_row") =>
        LET b == kap.new.image.bitmap
        IN  /\ access.got_mut = access.got
            /\ IF access.y >= b.height THEN access.got = None
               ELSE access.got = Some([i \in 1..b.width |-> b.pixels[access.y * b.width + i]])
            /\ Concat([y \in 1..b.height |-> get_row(b, y - 1).v]) = b.pixels

\* the second row of a 2 x 2 bitmap was asked for
C19_Witness ==
    /\ access # None /\ access.call = "get_row"
    /\ kap.new.image.bitmap.width = 2 /\ kap.new.image.bitmap.height = 2
    /\ access.y = 1
    /\ kap.raster = <<1, 0, 1, 0>>
    /\ access.got = Some(<<1, 0>>)

\* C20: the file into_file wrote is the header text, the bytes 0x1A, 0x00
\* and the depth, the RLE streams of the rows 0..height-1 in their order,
\* each once, and the table of the offsets; the offset of a row is the length
\* of all that was written before its stream
C20_WriteOrder ==
    Written =>
        LET image == kap.new.image
            N     == height(image.header)
            text  == as_bytes(into_header_format(image.header))
            rows  == [i \in 1..N |-> RowStream(image, i - 1)]
            Upto(i) == Len(text) + 3 + Len(Concat(SubSeq(rows, 1, i)))
            table == [k \in 1..(N + 1) |->
                        <<Upto(k - 1) \div 2^24, (Upto(k - 1) \div 2^16) % U8,
                          (Upto(k - 1) \div 2^8) % U8, Upto(k - 1) % U8>>]
        IN  /\ disk.f = text \o <<26, 0, image.header.ifm>> \o Concat(rows) \o Concat(table)
            /\ disk.index = [k \in 1..(N + 1) |-> Upto(k - 1)]

\* a file of three rows, each of one pixel, was written
C20_Witness ==
    /\ Written
    /\ kap.header.general_parameters.image_width_height = <<1, 3>>
    /\ kap.header.ifm = 4
    /\ kap.raster = <<15, 0, 15>>
    /\ Len(disk.index) = 4
    /\ disk.index[2] - disk.index[1] = Len(RowStream(kap.new.image, 0))
    /\ SubSeq(disk.f, disk.index[2] + 1, disk.index[3]) = RowStream(kap.new.image, 1)

(***************************************************************************)
(* The row decoder on a width below that of the row encoded, and into a    *)
(* buffer longer than the width: the last run is cut and the rest of the   *)
(* stream and of the buffer left alone.                                    *)
(***************************************************************************)
\* what the bytes of a buffer hold before a row of the depth is decoded
\* into it: 0 where the decoder sets bits, a byte it never writes elsewhere
Blank(d) == IF d = 1 THEN 0 ELSE 2^8 - 1

\* the widths a row of w pixels is decoded at
Narrowed(w) == {0, 1, w \div 2, w - 1, w} \cap (0..w)

\* decompress_bsb_row::<depth> of the row's encoding at a width up to the
\* row's, into a blank buffer one byte longer than the row
DecompressNarrow ==
    /\ enc # None /\ ~enc.panic
    /\ rowbuf = None
    /\ \E w \in Narrowed(Len(row.pixels)) :
         rowbuf' = [tag |-> "row", width |-> w]
                     @@ decompress_bsb_row(row.depth,
                                           [i \in 1..(Len(row.pixels) + 1) |-> Blank(row.depth)],
                                           enc.buf, 0, w)
    /\ UNCHANGED <<row, enc, kap, disk, loaded, trail, access>>

ClampNext == CompressRow \/ DecompressNarrow

SpecClamp == RowInit /\ [][ClampNext]_vars

\* the offset after k units of the stream from pos on, a unit ending with
\* its first byte below 0x80
RECURSIVE SkipUnits(_, _, _)
SkipUnits(buf, pos, k) ==
    IF k = 0 THEN pos
    ELSE SkipUnits(buf, Least({ j \in pos..(Len(buf) - 1) : buf[j + 1] < 2^7 }, Len(buf)) + 1,
                   k - 1)

\* the runs of the row that start before pixel w
RunsBefore(px, w) == Cardinality({ i \in 1..w : i = 1 \/ px[i] # px[i - 1] })

\* bit x of a row packed eight pixels to the byte, the first in the top bit
PackedBit(buf, x) == (buf[(x \div 8) + 1] \div 2^(7 - (x % 8))) % 2

\* C21: decoding at a width w the encoding of a row at least as wide gives
\* the first w pixels of the row, leaves every position of the buffer from w
\* on as it was, and has read the line number and the runs that start before
\* pixel w and not a byte more
C21_ExactWidth ==
    (rowbuf # None /\ "width" \in DOMAIN rowbuf) =>
        /\ rowbuf.ok
        /\ Len(rowbuf.buf) = Len(row.pixels) + 1
        /\ IF row.depth = 1
           THEN /\ \A x \in 0..(rowbuf.width - 1) : PackedBit(rowbuf.buf, x) = row.pixels[x + 1]
                /\ \A x \in rowbuf.width..(8 * Len(rowbuf.buf) - 1) : PackedBit(rowbuf.buf, x) = 0
           ELSE /\ \A i \in 1..rowbuf.width : rowbuf.buf[i] = row.pixels[i]
                /\ \A i \in (rowbuf.width + 1)..Len(rowbuf.buf) : rowbuf.buf[i] = Blank(row.depth)
        /\ rowbuf.pos = SkipUnits(enc.buf, 0, 1 + RunsBefore(row.pixels, rowbuf.width))

\* a row of two runs was decoded at a width that ends in its first run
C21_Witness ==
    /\ rowbuf # None /\ "width" \in DOMAIN rowbuf /\ rowbuf.ok
    /\ row.depth = 4 /\ row.line_number = 300
    /\ Len(row.pixels) = 16 /\ row.pixels[1] = 15 /\ row.pixels[16] = 0
    /\ rowbuf.width = 8
    /\ rowbuf.buf[8] = 15 /\ rowbuf.buf[9] = 2^8 - 1
    /\ rowbuf.pos = 3

(***************************************************************************)
(* The units of an encoded row: the line number, then one per run.         *)
(***************************************************************************)
\* the number of runs of a row, and the 0-based pixel its k-th run starts at
RunCount(px) == RunsBefore(px, Len(px))
RunStart(px, k) ==
    CHOOSE i \in 0..(Len(px) - 1) :
        /\ i = 0 \/ px[i + 1] # px[i]
        /\ RunsBefore(px, i + 1) = k
\* the pixels of the k-th run, the first included
RunPixels(px, k) ==
    (IF k < RunCount(px) THEN RunStart(px, k + 1) ELSE Len(px)) - RunStart(px, k)

\* the k-th unit of the encoding, the line number being unit 0
Unit(buf, k) == SubSeq(buf, SkipUnits(buf, 0, k) + 1, SkipUnits(buf, 0, k + 1))

\* compress_bsb_row returned and its encoding is in enc
Encoded == enc # None /\ ~enc.panic /\ "whole" \notin DOMAIN enc

\* C22: every unit of an encoded row, the line number and each run, begins
\* with a byte that is not 0; the unit of line number 0 and that of a run of
\* one pixel 0 are 0x80, 0x00, which the decoder reads as pixel 0 with count
\* 1; after the units comes one byte 0x00, the last of the row
C22_ZeroAvoided ==
    Encoded =>
        LET buf == enc.buf
            n   == RunCount(row.pixels)
            dec == 7 - row.depth
        IN  /\ \A k \in 0..n : Unit(buf, k) # <<>> /\ Unit(buf, k)[1] # 0
            /\ SkipUnits(buf, 0, n + 1) = Len(buf) - 1
            /\ buf[Len(buf)] = 0
            /\ row.line_number = 0 => Unit(buf, 0) = <<2^7, 0>>
            /\ \A k \in 1..n :
                 (row.pixels[RunStart(row.pixels, k) + 1] = 0 /\ RunPixels(row.pixels, k) = 1)
                    => /\ Unit(buf, k) = <<2^7, 0>>
                       /\ LET r == bsb_decompress_nb(Unit(buf, k), 0, dec, 2^dec - 1)
                          IN  r.ok /\ r.pixel = 0 /\ r.count = 1 /\ r.pos = 2

\* the row 1, 0 of depth 7 was encoded with line number 0
C22_Witness ==
    /\ Encoded
    /\ row.depth = 7 /\ row.line_number = 0 /\ row.pixels = <<1, 0>>
    /\ enc.buf = <<2^7, 0, 1, 2^7, 0, 0>>

\* the row is one run of n pixels
OneRun(n) == Len(row.pixels) = n /\ RunCount(row.pixels) = 1

\* the largest count the first byte of a run holds at the depth of the row
maxin == 2^(7 - row.depth) - 1

LineSamples == {0, 1, 2^7 - 1, 2^7, 2^14 - 1, 2^14, 2^16 - 2}
ShortRows(d) == { px \in RowInputs(d) : Len(px) <= 2 }

LineInit ==
    /\ \E d \in Depths, ln \in LineSamples :
         \E px \in ShortRows(d) :
            row = [depth |-> d, line_number |-> ln, pixels |-> px]
    /\ enc = None
    /\ rowbuf = None
    /\ kap = None /\ disk = None /\ loaded = None /\ trail = <<>>
    /\ access = None

SpecLine == LineInit /\ [][RowNext]_vars

\* the bytes the claim gives the unit of line number r
LineBytes(r) == IF r = 0 THEN 2 ELSE IF r < 2^7 THEN 1 ELSE IF r < 2^14 THEN 2 ELSE 3

\* C29: the line number decompress_bsb_row returns for a row written with
\* line number r is r + 1, and the first unit of the encoding, that of the
\* line number, is of 2 bytes for r = 0, of 1 byte for r in 1..127, of 2 for
\* r in 128..16383 and of 3 above
C29_LineNumber ==
    /\ Encoded => Len(Unit(enc.buf, 0)) = LineBytes(row.line_number)
    /\ rowbuf # None => (rowbuf.ok /\ rowbuf.line_number = row.line_number + 1)

\* a row written with line number 16384 was read back: three bytes for the
\* line number, and 16385 returned
C29_Witness ==
    /\ rowbuf # None /\ rowbuf.ok
    /\ row.line_number = 2^14
    /\ Len(row.pixels) = 2
    /\ Unit(enc.buf, 0) = <<2^7 + 1, 2^7, 0>>
    /\ rowbuf.line_number = 2^14 + 1

(***************************************************************************)
(* Rows of every width: the short rows, and rows of one pixel value of the *)
(* widths around 2^15, where width_in << 1 leaves 16 bits, and of the      *)
(* widest.                                                                 *)
(***************************************************************************)
WideWidths == {2^15 - 1, 2^15, 2^15 + 1, 2^16 - 1}
WideRows(d) == { [i \in 1..w |-> 2^d - 1] : w \in WideWidths }

WideInit ==
    /\ \/ \E d \in Depths, ln \in LineNumbers :
            \E px \in ShortRows(d) :
               row = [depth |-> d, line_number |-> ln, pixels |-> px]
       \/ \E d \in Depths :
            \E px \in WideRows(d) :
               row = [depth |-> d, line_number |-> 0, pixels |-> px]
    /\ enc = None
    /\ rowbuf = None
    /\ kap = None /\ disk = None /\ loaded = None /\ trail = <<>>
    /\ access = None

SpecWide == WideInit /\ [][CompressRow]_vars

\* C30: compress_bsb_row of a row of a width of 1..65535 with
\* width_out = width_in returns: it does not divide by zero, no addition of
\* its 16-bit counters overflows, and the value it returns is the number of
\* bytes it appended
C30_NoFault ==
    (enc # None /\ Len(row.pixels) >= 1) =>
        /\ ~enc.panic
        /\ ~enc.ovf
        /\ enc.ret = Len(enc.buf)

\* a row of 32767 pixels was compressed: no fault, and the bytes appended
\* counted
C30_Witness ==
    /\ enc # None
    /\ Len(row.pixels) = 2^15 - 1
    /\ ~enc.panic /\ ~enc.ovf
    /\ enc.ret = Len(enc.buf)

(***************************************************************************)
(* The dates of the CED and NTM records.                                   *)
(***************************************************************************)
\* the value of the field whose key and '=' are key in the text t: the
\* characters after them up to a comma or the end of the line, <<>> when the
\* text has no such field
ValueIn(t, key) ==
    LET at == { i \in 0..(Len(t) - 3) : Slice(t, i, i + 3) = key }
        From(i) == Slice(t, i + 3, FirstIn(t, i + 3, {",", CR, LF}))
    IN  IF at = {} THEN <<>> ELSE From(Least(at, 0))

\* the date the numbers of the value s name, taken in the order of fmt
DateAs(s, fmt) == parse_from_str(s, fmt)

\* C24: the edition date of a header parsed from a text is the date its ED
\* value names as day/month/year when it names one, and else the date it
\* names as month/day/year when it names one; the NTM date and ADN record
\* are the dates ND and BD name as month/day/year
C24_Dates ==
    \A i \in 1..(Len(trail) - 1) :
        (trail[i].kind = "text" /\ trail[i + 1].kind = "header") =>
            LET t  == trail[i].text
                h  == trail[i + 1].header
                ed == ValueIn(t, <<"E", "D", "=">>)
                nd == ValueIn(t, <<"N", "D", "=">>)
                bd == ValueIn(t, <<"B", "D", "=">>)
            IN  /\ DateAs(ed, DATE_FORMAT).ok =>
                     h.ced.v.edition_date = Some(DateAs(ed, DATE_FORMAT).v)
                /\ (~DateAs(ed, DATE_FORMAT).ok /\ DateAs(ed, AMERICAN_DATE_FORMAT).ok) =>
                     h.ced.v.edition_date = Some(DateAs(ed, AMERICAN_DATE_FORMAT).v)
                /\ DateAs(nd, AMERICAN_DATE_FORMAT).ok =>
                     h.ntm.v.date = Some(DateAs(nd, AMERICAN_DATE_FORMAT).v)
                /\ DateAs(bd, AMERICAN_DATE_FORMAT).ok =>
                     h.ntm.v.adn_record = Some(DateAs(bd, AMERICAN_DATE_FORMAT).v)

\* a text with ED=09/12/1998 and ND=10/30/1999 was parsed: the edition date
\* is the 9th of December and the NTM date the 30th of October
C24_Witness ==
    /\ Len(trail) = 2 /\ trail[1].kind = "text" /\ trail[2].kind = "header"
    /\ trail[1].text \in DatedTexts
    /\ ValueIn(trail[1].text, <<"E", "D", "=">>)
         = <<"0", "9", "/", "1", "2", "/", "1", "9", "9", "8">>
    /\ trail[2].header.ced.v.edition_date = Some([d |-> 9, m |-> 12, Y |-> 1998])
    /\ trail[2].header.ntm.v.date = Some([d |-> 30, m |-> 10, Y |-> 1999])

(***************************************************************************)
(* The fields of the written records.                                      *)
(***************************************************************************)
Occurs(s, pat) == \E i \in 0..(Len(s) - Len(pat)) : Slice(s, i, i + Len(pat)) = pat

\* the record named name of the text t with its continuation lines, <<>>
\* when the text has none
RecordIn(t, name) ==
    LET at  == { i \in 0..(Len(t) - 4) :
                   /\ Slice(t, i, i + 4) = name \o <<"/">>
                   /\ (i = 0 \/ t[i] = LF) }
        i0  == Least(at, 0)
        end == Least({ j \in (i0 + 1)..Len(t) :
                         t[j] = LF /\ (j = Len(t) \/ t[j + 1] # " ") }, Len(t))
    IN  IF at = {} THEN <<>> ELSE Slice(t, i0, end)

\* the fields of the records into_header_format writes through
\* format_field_names, in their order, P5..P8 apart
WrittenFields ==
    [BSB |-> <<"NA", "NU", "RA", "DU">>,
     KNP |-> <<"SC", "GD", "PR", "PP", "PI", "SP", "SK", "TA", "UN", "SD", "DX", "DY">>,
     KNQ |-> <<"EC", "GD", "VC", "SC", "PC", "P1", "P2", "P3", "P4", "GC", "RM">>,
     CED |-> <<"SE", "RE", "ED">>,
     NTM |-> <<"NE", "ND", "BF", "BD">>]

\* the value of P5..P8 in a header, None when it or the KNQ record is unset
Additional(h, f) ==
    LET name == CASE f = "P5" -> "p5" [] f = "P6" -> "p6" [] f = "P7" -> "p7" [] f = "P8" -> "p8"
    IN  IF IsSome(h.additional_parameters) THEN h.additional_parameters.v[name] ELSE None

\* every other field of BSB, KNP, KNQ, CED and NTM is written with its key,
\* set or not
KeysWritten(t) ==
    \A rec \in DOMAIN WrittenFields : \A k \in 1..Len(WrittenFields[rec]) :
        Occurs(RecordIn(t, RecordNames[rec]), FieldNames[WrittenFields[rec][k]] \o <<"=">>)

\* C25: in the text into_header_format writes of a header, the KNQ record
\* has KEY=value for each of P5..P8 that is set and nothing of one that is
\* not, and every other field of BSB, KNP, KNQ, CED and NTM has its KEY=
C25_OptionalFields ==
    \A i \in 1..(Len(trail) - 1) :
        (trail[i].kind = "header" /\ trail[i + 1].kind = "text") =>
            LET h   == trail[i].header
                t   == trail[i + 1].text
                knq == RecordIn(t, RecordNames.KNQ)
            IN  /\ \A f \in {"P5", "P6", "P7", "P8"} :
                     IF IsSome(Additional(h, f))
                     THEN Occurs(knq, FieldNames[f] \o <<"=">> \o Additional(h, f).v)
                     ELSE ~Occurs(knq, FieldNames[f] \o <<"=">>)
                /\ KeysWritten(t)

\* a header with P5 and P7 set and P6 and P8 unset was written
C25_Witness ==
    /\ Len(trail) >= 3 /\ trail[2].kind = "header" /\ trail[3].kind = "text"
    /\ Additional(trail[2].header, "P5") = Some(<<"A">>)
    /\ Additional(trail[2].header, "P7") = Some(<<"1">>)
    /\ Additional(trail[2].header, "P6") = None
    /\ KeysWritten(trail[3].text)

(***************************************************************************)
(* The lines of the written records.                                       *)
(***************************************************************************)
\* the record name with its slash and the fields of the record rec of a
\* header as they are written, one string each
Pieces(rec, header) ==
    <<RecordNames[rec] \o <<"/">>>>
        \o [k \in 1..Len(WrittenFields[rec]) |->
              LET f == WrittenFields[rec][k]
              IN  IF rec = "KNQ" /\ f \in {"GD", "SC"} THEN serialize_additional(f, header)
                  ELSE serialize_field(f, header)]

\* the pieces from the i-th on put on lines of at most limit characters: a
\* piece follows the one before after a comma (the first field follows the
\* record name directly), and goes to a new line of four spaces, without
\* the comma, when it would make the line longer than limit
RECURSIVE Wrapped(_, _, _, _)
Wrapped(v, i, out, limit) ==
    IF i > Len(v) THEN out
    ELSE LET sep == IF i <= 2 THEN <<>> ELSE <<",">>
             brk == LastLineLen(out) + Len(sep) + Len(v[i]) > limit
         IN  Wrapped(v, i + 1,
                     IF brk THEN out \o CRLF \o <<" ", " ", " ", " ">> \o v[i]
                     ELSE out \o sep \o v[i],
                     limit)

\* the records of the text t are the pieces of the header h on lines of at
\* most limit characters
WrappedAt(h, t, limit) ==
    \A rec \in DOMAIN WrittenFields :
        RecordIn(t, RecordNames[rec]) = Wrapped(Pieces(rec, h), 1, <<>>, limit) \o CRLF

\* C26: in the text into_header_format writes of a header, the fields of a
\* BSB, KNP, KNQ, CED or NTM record on one line are separated by one comma,
\* and a field starts a new line of four spaces, with no comma before or
\* after the break, exactly when it would make the line longer than 80
\* characters
C26_Wrap ==
    \A i \in 1..(Len(trail) - 1) :
        (trail[i].kind = "header" /\ trail[i + 1].kind = "text") =>
            WrappedAt(trail[i].header, trail[i + 1].text, 80)

\* a BSB record whose last field would make a line of 80 characters was
\* written
C26_Witness ==
    /\ Len(trail) >= 3 /\ trail[2].kind = "header" /\ trail[3].kind = "text"
    /\ Len(Concat(Pieces("BSB", trail[2].header))) + 3 = 80
    /\ Occurs(RecordIn(trail[3].text, RecordNames.BSB), <<"D", "U", "=">>)

(***************************************************************************)
(* The order of the written records.                                       *)
(***************************************************************************)
RecordOrder ==
    <<"CRR", "VER", "BSB", "KNP", "KNQ", "CED", "NTM", "OST", "IFM", "RGB", "DAY", "DSK",
      "NGT", "NGR", "GRY", "PRC", "PRG", "REF", "PLY", "DTM", "CPH", "WPX", "WPY", "PWX",
      "PWY", "ERR">>

\* the records written once per entry of a list, and the list of each
Repeating == {"RGB", "DAY", "DSK", "NGT", "NGR", "GRY", "PRC", "PRG", "REF", "PLY", "ERR"}
ListOf(h, rec) ==
    CASE rec = "RGB" -> h.rgb [] rec = "DAY" -> h.day [] rec = "DSK" -> h.dsk
      [] rec = "NGT" -> h.ngt [] rec = "NGR" -> h.ngr [] rec = "GRY" -> h.gry
      [] rec = "PRC" -> h.prc [] rec = "PRG" -> h.prg
      [] rec = "REF" -> h.reference_point_record [] rec = "PLY" -> h.ply
      [] rec = "ERR" -> h.err

\* the offsets of the lines of the text t that start a record, and of those
\* that start the record rec
LineStarts(t) ==
    { i \in 0..(Len(t) - 4) :
        /\ i = 0 \/ t[i] = LF
        /\ \A k \in 1..3 : t[i + k] \in UpperChars
        /\ t[i + 4] = "/" }
LinesOf(t, rec) == { i \in LineStarts(t) : Slice(t, i, i + 3) = RecordNames[rec] }

\* the place in RecordOrder of the record that starts at offset i, 0 when it
\* is none of them
Rank(t, i) ==
    LET hit == { k \in 1..Len(RecordOrder) : RecordNames[RecordOrder[k]] = Slice(t, i, i + 3) }
    IN  IF hit = {} THEN 0 ELSE CHOOSE k \in hit : TRUE

\* the line at offset i from after the slash to its end, the end excluded
LineAt(t, i) == Slice(t, i + 4, FirstIn(t, i + 4, {CR, LF}))

\* the records of the text t are in the fixed order, and only a repeating
\* kind has more than one line
InOrder(t) ==
    /\ \A i \in LineStarts(t) : Rank(t, i) > 0
    /\ \A i, j \in LineStarts(t) :
         i < j => /\ Rank(t, i) <= Rank(t, j)
                  /\ Rank(t, i) = Rank(t, j) => RecordOrder[Rank(t, i)] \in Repeating

\* the lines of a repeating kind are as many as the entries of its list, and
\* the k-th of them has the number k; the k-th line of a palette has the k-th
\* colour
Numbered(h, t) ==
    \A rec \in Repeating :
        LET at == SortedSeq(LinesOf(t, rec))
        IN  /\ Len(at) = Len(Entries(ListOf(h, rec)))
            /\ \A k \in 1..Len(at) : StartsWith(LineAt(t, at[k]), FmtNat(k) \o <<",">>)
            /\ \A k \in 1..Len(at) :
                 rec \notin {"REF", "PLY", "ERR"} =>
                     LineAt(t, at[k]) =
                         join(<<FmtNat(k)>> \o [c \in 1..3 |-> FmtNat(ListOf(h, rec).v[k][c])],
                              <<",">>)

\* C27: in the text into_header_format writes of a header the records are in
\* the order CRR, VER, BSB, KNP, KNQ, CED, NTM, OST, IFM, RGB, DAY, DSK,
\* NGT, NGR, GRY, PRC, PRG, REF, PLY, DTM, CPH, WPX, WPY, PWX, PWY, ERR; a
\* palette that is absent or empty has no line; and the lines of a repeating
\* kind follow one another, numbered 1..n in the order of the list
C27_RecordOrder ==
    \A i \in 1..(Len(trail) - 1) :
        (trail[i].kind = "header" /\ trail[i + 1].kind = "text") =>
            /\ InOrder(trail[i + 1].text)
            /\ Numbered(trail[i].header, trail[i + 1].text)

\* a header with a palette of two colours, a DTM and an ERR record was
\* written, with two RGB lines before the DTM line and the ERR line last
C27_Witness ==
    /\ Len(trail) >= 3 /\ trail[2].kind = "header" /\ trail[3].kind = "text"
    /\ Len(Entries(trail[2].header.rgb)) = 2
    /\ Cardinality(LinesOf(trail[3].text, "RGB")) = 2
    /\ Cardinality(LinesOf(trail[3].text, "DTM")) = 1
    /\ Cardinality(LinesOf(trail[3].text, "ERR")) = 1
    /\ Cardinality(LinesOf(trail[3].text, "CRR")) = 1

(***************************************************************************)
(* The positions of the palette entries.                                   *)
(***************************************************************************)
Palettes == {"RGB", "DAY", "DSK", "NGT", "NGR", "GRY", "PRC", "PRG"}

\* the index written on the palette line at offset i of the text t, and the
\* colour
IndexAt(t, i) == parse_index(LineAt(t, i), 0).v
ColourAt(t, i) == parse_index_rgb(LineAt(t, i)).v

\* C28: in a header parsed from a text, the colour of every palette line
\* that has an index k and a colour is the entry at position k - 1 of the
\* list of its palette (the k-th entry)
C28_PalettePositions ==
    \A n \in 1..(Len(trail) - 1) :
        (trail[n].kind = "text" /\ trail[n + 1].kind = "header") =>
            \A rec \in Palettes : \A i \in LinesOf(trail[n].text, rec) :
                parse_index_rgb(LineAt(trail[n].text, i)).ok =>
                    LET list == Entries(ListOf(trail[n + 1].header, rec))
                        k    == IndexAt(trail[n].text, i)
                    IN  /\ k \in 1..Len(list)
                        /\ list[k] = ColourAt(trail[n].text, i)

\* a text with the lines RGB/1,0,0,0 and RGB/2,255,255,255 was parsed, and the
\* palette has the two colours in this order
C28_Witness ==
    /\ Len(trail) = 2 /\ trail[1].kind = "text" /\ trail[2].kind = "header"
    /\ trail[1].text \in PaletteTexts
    /\ { IndexAt(trail[1].text, i) : i \in LinesOf(trail[1].text, "RGB") } = {1, 2}
    /\ trail[2].header.rgb = Some(<<<<0, 0, 0>>, <<2^8 - 1, 2^8 - 1, 2^8 - 1>>>>)
====
